---- MODULE Spec2Model ----
(***************************************************************************)
(* Verification model of the data-access core of FAST_APPS:                *)
(*   - core/base/comparator/compartor.py        (ModelComparator)          *)
(*   - core/base/QueryBuilder/core/*.py         (QueryBuilder, resolver)   *)
(*   - core/base/CRUD/nested_handler_module/*.py (RelationshipUpdater,     *)
(*     DataProcessor, NestedRelationshipHandler)                           *)
(*   - core/base/QueryBuilder/filters/*.py      (the filter compilers)     *)
(* Each engine has its own specification (SpecCmp, SpecQB, SpecRec,        *)
(* SpecSyn, SpecFlt, SpecPar) over one shared variable tuple; the          *)
(* variables of the other engines idle. SpecPar runs two reconciliations   *)
(* of different parents step by step.                                      *)
(***************************************************************************)
EXTENDS Integers, Sequences, FiniteSets, TLC

VARIABLES
    cmpArgs,     \* constructor arguments of the ModelComparator under test
    cmpObj,      \* the comparator's attribute dictionary (name -> value)
    cmpPhase,    \* "new" | "ready" | "failed"
    cmpRaised,   \* exception raised by the last comparator operation
    cmpLastOp,   \* last comparator operation: "none" | "init" | "setattr" | "read"
    cmpView,     \* what the read-only properties returned last
    qbReq,       \* QueryBuilder.request (the TableRequest)
    qbQuery,     \* QueryBuilder.query (the running row query)
    qbCount,     \* QueryBuilder.row_count_query (unset until derived)
    qbJoins,     \* PathResolver.joins: join path -> alias number
    qbCounter,   \* PathResolver.join_counter
    qbApplied,   \* QueryBuilder.applied_joins
    qbInvalid,   \* QueryBuilder.invalid_paths
    qbPc,        \* position in apply_table_request
    qbIdx,       \* index of the next column filter / sort key
    recCfg,      \* the handler's configuration of the relation
    recObjs,     \* every child instance ever loaded or created, by idx
    recChildren, \* the parent's collection: idx of its children, in order
    recSessionDeleted, \* idx of the instances passed to session.delete
    recCalls,    \* reconciliation calls made so far
    recLast,     \* what the last reconciliation call saw and did
    recEverRemoved, \* idx of the children ever classified as removed
    synCfg,      \* NestedRelationshipHandler.relationship_deleted_columns
    synInstance, \* the main instance the handler is called on
    synRelated,  \* the instances behind its to-one relations
    synObjs,     \* every instance of its one-to-many relation, by idx
    synChildren, \* the main instance's one-to-many collection
    synSession,  \* what the handler passed to session.add / session.delete
    synCalls,    \* handler calls made so far
    synLast,     \* what the last handler call was given and did
    fltIn,       \* the column filter handed to a filter compiler
    fltOut,      \* the predicate it compiled, "unset" before the call
    parCfg,      \* the handler's configuration of the relation, for both calls
    parObjs,     \* every child instance of the two parents, by idx
    parChildren, \* the collection of each of the two parents
    parSessionDeleted, \* idx of the instances passed to session.delete
    parPc,       \* where each of the two reconciliations stands
    parWork,     \* the locals of each reconciliation
    parFinal,    \* final_items of each reconciliation
    parBefore    \* the instances and collections before the two calls

cmpVars == <<cmpArgs, cmpObj, cmpPhase, cmpRaised, cmpLastOp, cmpView>>

qbVars == <<qbReq, qbQuery, qbCount, qbJoins, qbCounter, qbApplied, qbInvalid,
           qbPc, qbIdx>>

recVars == <<recCfg, recObjs, recChildren, recSessionDeleted, recCalls,
            recLast, recEverRemoved>>

synVars == <<synCfg, synInstance, synRelated, synObjs, synChildren, synSession,
            synCalls, synLast>>

fltVars == <<fltIn, fltOut>>

parVars == <<parCfg, parObjs, parChildren, parSessionDeleted, parPc, parWork,
             parFinal, parBefore>>

vars == <<cmpArgs, cmpObj, cmpPhase, cmpRaised, cmpLastOp, cmpView,
          qbReq, qbQuery, qbCount, qbJoins, qbCounter, qbApplied, qbInvalid,
          qbPc, qbIdx,
          recCfg, recObjs, recChildren, recSessionDeleted, recCalls,
          recLast, recEverRemoved,
          synCfg, synInstance, synRelated, synObjs, synChildren, synSession,
          synCalls, synLast,
          fltIn, fltOut,
          parCfg, parObjs, parChildren, parSessionDeleted, parPc, parWork,
          parFinal, parBefore>>

(***************************************************************************)
(* Bounds                                                                  *)
(***************************************************************************)
MaxLen == 2          \* longest old_list / new_list handed to the comparator
MaxId == 2           \* key values are 1..MaxId
MaxParChildren == 2  \* most children of each of two parents reconciled together
MaxParPayload == 2   \* longest payload of each of two calls made together
MaxFilters == 2      \* most column filters added to one TableRequest
MaxSorts == 2        \* most sort keys added to one TableRequest
MaxPageIndex == 1    \* page indexes are 0..MaxPageIndex
MaxChildren == 2     \* most children a parent is loaded with
MaxPayload == 2      \* most records in one new payload
MaxCalls == 2        \* most reconciliation calls on the parent

(***************************************************************************)
(* Structured records handed to the comparator                             *)
(***************************************************************************)
Fields == {"id", "title"}
Titles == {"A", "B"}
Ids == 1..MaxId

\* pydantic models of class User, plus one instance of another class
CmpModels ==
    [cls : {"User"}, id : Ids, title : Titles]
        \cup {[cls |-> "NotUser", id |-> 1, title |-> "A"]}

RECURSIVE SeqsUpTo(_, _)
SeqsUpTo(S, n) ==
    IF n = 0 THEN {<<>>}
    ELSE LET shorter == SeqsUpTo(S, n - 1)
         IN shorter \cup {Append(s, x) : s \in {t \in shorter : Len(t) = n - 1}, x \in S}

KeyFieldChoices == (SUBSET Fields) \cup {{"bogus"}}
ExcludeFieldChoices == SUBSET Fields

EmptyObj == <<>>
EmptyResult == [added |-> {}, removed |-> {}, modified |-> {}, unchanged |-> {}]
NoView == [added |-> {}, removed |-> {}, modified |-> {}, unchanged |-> {},
           has_changes |-> FALSE]

(***************************************************************************)
(* ModelComparator: pure helpers                                           *)
(***************************************************************************)
\* model.model_dump(): the declared fields of the model
ExtractAttributes(model) == [f \in Fields |-> model[f]]

\* variant that forgets the exclusion
FilterAttributesKeepAll(attrs, exclude_fields) == attrs

\* {k: v for k, v in attrs.items() if k not in exclude_fields}
FilterAttributes(attrs, exclude_fields) ==
    [f \in (DOMAIN attrs) \ exclude_fields |-> attrs[f]]

\* field names of the first item of the list, [] for an empty list
GetAllFields(model_list) ==
    IF model_list = <<>> THEN {} ELSE DOMAIN ExtractAttributes(model_list[1])

\* every item has exactly the class of the first item
ListInternallyConsistent(model_list) ==
    \A i \in 1..Len(model_list) : model_list[i].cls = model_list[1].cls

\* _validate_all_types raises ModelComparisonError
ValidateAllTypesRaises(old_list, new_list) ==
    \/ ~ListInternallyConsistent(old_list)
    \/ ~ListInternallyConsistent(new_list)
    \/ /\ old_list # <<>>
       /\ new_list # <<>>
       /\ old_list[1].cls # new_list[1].cls

\* tuple(getattr(item, field) for field in key_fields); getattr of a field the
\* model does not have raises AttributeError
HasKeyFields(key_fields) == key_fields \subseteq Fields
GetKey(item, key_fields) == [f \in key_fields |-> item[f]]

\* _check_key_duplicates raises ModelComparisonError (duplicate key, or a key
\* field that the items do not have)
CheckKeyDuplicatesRaises(model_list, key_fields, exclude_fields) ==
    /\ model_list # <<>>
    /\ LET effective_key_fields ==
               IF key_fields = {}
               THEN {f \in GetAllFields(model_list) : f \notin exclude_fields}
               ELSE key_fields
       IN /\ effective_key_fields # {}
          /\ \/ ~HasKeyFields(effective_key_fields)
             \/ \E i, j \in 1..Len(model_list) :
                    /\ i < j
                    /\ GetKey(model_list[i], effective_key_fields)
                         = GetKey(model_list[j], effective_key_fields)

\* {get_key(item): item for item in model_list}: a later item replaces an
\* earlier one under the same key
KeyDict(model_list, key_fields) ==
    LET keys == {GetKey(model_list[i], key_fields) : i \in 1..Len(model_list)}
        last(k) == CHOOSE i \in 1..Len(model_list) :
                      /\ GetKey(model_list[i], key_fields) = k
                      /\ \A j \in 1..Len(model_list) :
                            GetKey(model_list[j], key_fields) = k => j <= i
    IN [k \in keys |-> model_list[last(k)]]

\* the fields whose old and new values differ, with both values
ChangedFields(old_data, new_data) ==
    LET all_fields == (DOMAIN old_data) \cup (DOMAIN new_data)
        differing == {f \in all_fields : old_data[f] # new_data[f]}
    IN [f \in differing |-> [old |-> old_data[f], new |-> new_data[f]]]

PerformComparison(old_list, new_list, key_fields_arg, exclude_fields) ==
    LET key_fields ==
            IF key_fields_arg = {}
            THEN {f \in GetAllFields(old_list) \cup GetAllFields(new_list) :
                      f \notin exclude_fields}
            ELSE key_fields_arg
        old_dict == KeyDict(old_list, key_fields)
        new_dict == KeyDict(new_list, key_fields)
        old_keys == DOMAIN old_dict
        new_keys == DOMAIN new_dict
        old_data(k) == FilterAttributes(ExtractAttributes(old_dict[k]), exclude_fields)
        new_data(k) == FilterAttributes(ExtractAttributes(new_dict[k]), exclude_fields)
    IN [added     |-> {new_dict[k] : k \in new_keys \ old_keys},
        removed   |-> {old_dict[k] : k \in old_keys \ new_keys},
        modified  |-> {[key            |-> k,
                        old_item       |-> old_dict[k],
                        new_item       |-> new_dict[k],
                        changed_fields |-> ChangedFields(old_data(k), new_data(k))]
                         : k \in {c \in old_keys \cap new_keys :
                                      old_data(c) # new_data(c)}},
        unchanged |-> {old_dict[k] : k \in {c \in old_keys \cap new_keys :
                                               old_data(c) = new_data(c)}}]

\* get_key inside _perform_comparison raises when a key field is missing
PerformComparisonRaises(old_list, new_list, key_fields) ==
    /\ ~HasKeyFields(key_fields)
    /\ (old_list # <<>> \/ new_list # <<>>)

\* variant without the immutability guard
ObjSetAttrUnguarded(obj, name, value) ==
    [obj    |-> IF name = "_result"
                THEN ("_initialized" :> TRUE) @@ (name :> value) @@ obj
                ELSE (name :> value) @@ obj,
     raised |-> "none"]

\* __setattr__: allowed until _initialized exists, AttributeError afterwards;
\* storing _result marks the object initialized
ObjSetAttr(obj, name, value) ==
    IF "_initialized" \notin DOMAIN obj
    THEN [obj    |-> IF name = "_result"
                     THEN ("_initialized" :> TRUE) @@ (name :> value) @@ obj
                     ELSE (name :> value) @@ obj,
          raised |-> "none"]
    ELSE [obj |-> obj, raised |-> "AttributeError"]

\* ModelComparator.__init__
ComparatorInit(old_list, new_list, key_fields_arg, exclude_fields_arg) ==
    LET exclude_fields == exclude_fields_arg
        key_fields == key_fields_arg
        o1 == ObjSetAttr(EmptyObj, "exclude_fields", exclude_fields).obj
        o2 == ObjSetAttr(o1, "key_fields", key_fields).obj
        o3 == ObjSetAttr(o2, "old_list", old_list).obj
        o4 == ObjSetAttr(o3, "new_list", new_list).obj
    IN IF \/ ValidateAllTypesRaises(old_list, new_list)
          \/ CheckKeyDuplicatesRaises(old_list, key_fields, exclude_fields)
          \/ CheckKeyDuplicatesRaises(new_list, key_fields, exclude_fields)
          \/ PerformComparisonRaises(old_list, new_list, key_fields)
       THEN [obj |-> o4, raised |-> "ModelComparisonError"]
       ELSE ObjSetAttr(o4, "_result",
                       PerformComparison(old_list, new_list, key_fields, exclude_fields))

\* the read-only properties
PropertyView(obj) ==
    LET r == obj["_result"]
    IN [added |-> r.added, removed |-> r.removed, modified |-> r.modified,
        unchanged |-> r.unchanged,
        has_changes |-> (Cardinality(r.added) > 0 \/ Cardinality(r.removed) > 0
                            \/ Cardinality(r.modified) > 0)]

(***************************************************************************)
(* QueryBuilder: the data model being queried                              *)
(***************************************************************************)
\* ColumnInspector.columns of each model, with the detected column type
ModelColumns(model) ==
    CASE model = "Order"    -> [status |-> "text", amount |-> "number"]
      [] model = "Customer" -> [name |-> "text"]
      [] model = "Region"   -> [code |-> "text"]
      [] OTHER              -> [sku |-> "text"]

\* ColumnInspector.relations of each model, with the related model
ModelRelations(model) ==
    CASE model = "Order"    -> [customer |-> "Customer", items |-> "Item"]
      [] model = "Customer" -> [region |-> "Region"]
      [] OTHER              -> <<>>

RootModel == "Order"

\* Operator vocabularies
TEXT_OPERATORS == {"equals", "notEquals", "lessThan", "lessThanOrEqualTo",
                   "greaterThan", "greaterThanOrEqualTo", "contains",
                   "notContains", "startsWith", "endsWith", "fuzzy"}
NUMBER_OPERATORS == {"equals", "notEquals", "lessThan", "lessThanOrEqualTo",
                     "greaterThan", "greaterThanOrEqualTo", "between",
                     "betweenInclusive"}
DATE_OPERATORS == NUMBER_OPERATORS
LIST_OPERATORS == {"in", "notIn", "between", "arrIncludes", "arrIncludesSome",
                   "arrIncludesAll"}
RELATION_OPERATORS == {"hasAny", "hasAll", "hasChild", "hasNotChild"}
BOOLEAN_OPERATORS == {"equals"}

\* select(model): no join, no predicate, no order, no offset/limit
EmptyQuery == [joins |-> <<>>, where |-> <<>>, order |-> <<>>,
               paged |-> FALSE, offset |-> 0, limit |-> 0]

NoCount == [set |-> FALSE, q |-> EmptyQuery]

\* TableRequest(): the defaults of the request model
DefaultRequest ==
    [columnFilters |-> <<>>, columnFilterFns |-> <<>>, sorting |-> <<>>,
     pagination |-> [pageIndex |-> 0, pageSize |-> 10], globalFilter |-> ""]

(***************************************************************************)
(* ColumnInspector.analyze_path                                            *)
(***************************************************************************)
\* _analyze_single_attribute: a column, a relation, or ValueError
AnalyzeSingleAttribute(model, attr_name) ==
    IF attr_name \in DOMAIN ModelColumns(model)
    THEN [ok |-> TRUE, column_type |-> ModelColumns(model)[attr_name]]
    ELSE IF attr_name \in DOMAIN ModelRelations(model)
    THEN [ok |-> TRUE, column_type |-> "relation"]
    ELSE [ok |-> FALSE, column_type |-> "none"]

RECURSIVE AnalyzeNestedPath(_, _, _)
AnalyzeNestedPath(current_model, path_parts, i) ==
    IF i = Len(path_parts)
    THEN AnalyzeSingleAttribute(current_model, path_parts[i])
    ELSE IF path_parts[i] \notin DOMAIN ModelRelations(current_model)
    THEN [ok |-> FALSE, column_type |-> "none"]
    ELSE AnalyzeNestedPath(ModelRelations(current_model)[path_parts[i]],
                           path_parts, i + 1)

\* variant that accepts every path
AnalyzePathUnchecked(path) == [ok |-> TRUE, column_type |-> "text"]

AnalyzePath(path) == AnalyzeNestedPath(RootModel, path, 1)

(***************************************************************************)
(* PathResolver.resolve_nested_path                                        *)
(***************************************************************************)
\* hasattr(model, name): columns and relationship attributes of the class
HasAttr(model, name) ==
    name \in (DOMAIN ModelColumns(model)) \cup (DOMAIN ModelRelations(model))

\* variant that never finds a cached join
JoinCachedNever(join_path, joins) == FALSE

\* join_path in self.joins
JoinCached(join_path, joins) == join_path \in DOMAIN joins

\* Walks the relation prefix, allocating one alias per join path that is not
\* cached yet; the cache is written before a later segment may fail.
RECURSIVE ResolveWalk(_, _, _, _, _, _)
ResolveWalk(parts, i, current_model, joins, counter, aliases_needed) ==
    IF i = Len(parts)
    THEN IF ~HasAttr(current_model, parts[i])
         THEN [ok |-> FALSE, column |-> [alias |-> -1, path |-> <<>>, attr |-> ""],
               aliases_needed |-> aliases_needed, joins |-> joins, counter |-> counter]
         ELSE LET final_join_path == SubSeq(parts, 1, i - 1)
              IN [ok |-> TRUE,
                  column |-> [alias |-> IF final_join_path = <<>> THEN -1
                                        ELSE joins[final_join_path],
                              path |-> final_join_path,
                              attr |-> parts[i]],
                  aliases_needed |-> aliases_needed,
                  joins |-> joins, counter |-> counter]
    ELSE IF \/ ~HasAttr(current_model, parts[i])
            \/ parts[i] \notin DOMAIN ModelRelations(current_model)
    THEN [ok |-> FALSE, column |-> [alias |-> -1, path |-> <<>>, attr |-> ""],
          aliases_needed |-> aliases_needed, joins |-> joins, counter |-> counter]
    ELSE LET join_path == SubSeq(parts, 1, i)
             target == ModelRelations(current_model)[parts[i]]
         IN IF JoinCached(join_path, joins)
            THEN ResolveWalk(parts, i + 1, target, joins, counter, aliases_needed)
            ELSE ResolveWalk(parts, i + 1, target,
                             (join_path :> counter) @@ joins, counter + 1,
                             Append(aliases_needed,
                                    [alias |-> counter, path |-> join_path]))

ResolveNestedPath(path, joins, counter) ==
    ResolveWalk(path, 1, RootModel, joins, counter, <<>>)

(***************************************************************************)
(* Filters                                                                 *)
(***************************************************************************)
IsList(value) == value.kind = "list"

\* ListFilter.apply: `'' in value` holds for every str and value.pop does not
\* exist on str (AttributeError); a list passes
ListFilterApply(column, operator, value) ==
    IF IsList(value)
    THEN [raised |-> "none",
          clause |-> [kind |-> "list", column |-> column, op |-> operator,
                      value |-> value]]
    ELSE [raised |-> "AttributeError",
          clause |-> [kind |-> "none", column |-> column, op |-> operator,
                      value |-> value]]

TextFilterApply(column, operator, value) ==
    [raised |-> "none",
     clause |-> [kind |-> "text", column |-> column,
                 op |-> IF operator \in TEXT_OPERATORS THEN operator ELSE "contains",
                 value |-> value]]

NumberFilterApply(column, operator, value) ==
    [raised |-> "none",
     clause |-> [kind |-> "number", column |-> column, op |-> operator,
                 value |-> value]]

\* RelationFilter.apply: the related model is looked up on the builder's own
\* model by the last name of the column, a ValueError when that model has no
\* such relation; hasChild / hasNotChild need no value; hasAny / hasAll build
\* RelationFilterValue(**x) for every x of the value, a TypeError when the
\* value is a plain string
RelationFilterApply(column, operator, value) ==
    IF column.attr \notin DOMAIN ModelRelations(RootModel)
    THEN [raised |-> "ValueError",
          clause |-> [kind |-> "none", column |-> column, op |-> operator,
                      value |-> value]]
    ELSE IF operator \in {"hasChild", "hasNotChild"} \/ IsList(value)
    THEN [raised |-> "none",
          clause |-> [kind |-> "relation", column |-> column, op |-> operator,
                      value |-> value]]
    ELSE [raised |-> "TypeError",
          clause |-> [kind |-> "none", column |-> column, op |-> operator,
                      value |-> value]]

\* variant that tries every filter whatever the type of the column is
ApplyFilterByTypeUngated(column, column_type, filter_fn, value) ==
    IF filter_fn = "custom"
    THEN [raised |-> "none", clause |-> [kind |-> "none", column |-> column,
                                         op |-> filter_fn, value |-> value]]
    ELSE IF filter_fn \in RELATION_OPERATORS
    THEN RelationFilterApply(column, filter_fn, value)
    ELSE IF filter_fn \in NUMBER_OPERATORS
    THEN NumberFilterApply(column, filter_fn, value)
    ELSE IF filter_fn \in LIST_OPERATORS
    THEN ListFilterApply(column, filter_fn, value)
    ELSE IF filter_fn \in TEXT_OPERATORS
    THEN TextFilterApply(column, filter_fn, value)
    ELSE TextFilterApply(column, "fuzzy", value)

\* QueryBuilder._apply_filter_by_type: the dispatch chain
ApplyFilterByType(column, column_type, filter_fn, value) ==
    IF filter_fn = "custom"
    THEN [raised |-> "none", clause |-> [kind |-> "none", column |-> column,
                                         op |-> filter_fn, value |-> value]]
    ELSE IF column_type = "relation" /\ filter_fn \in RELATION_OPERATORS
    THEN RelationFilterApply(column, filter_fn, value)
    ELSE IF column_type = "number" /\ filter_fn \in NUMBER_OPERATORS
    THEN NumberFilterApply(column, filter_fn, value)
    ELSE IF column_type = "date" /\ filter_fn \in DATE_OPERATORS
    THEN [raised |-> "none", clause |-> [kind |-> "date", column |-> column,
                                         op |-> filter_fn, value |-> value]]
    ELSE IF column_type = "boolean" /\ filter_fn \in BOOLEAN_OPERATORS
    THEN [raised |-> "none", clause |-> [kind |-> "boolean", column |-> column,
                                         op |-> filter_fn, value |-> value]]
    ELSE IF filter_fn \in LIST_OPERATORS
    THEN ListFilterApply(column, filter_fn, value)
    ELSE IF filter_fn \in TEXT_OPERATORS
    THEN TextFilterApply(column, filter_fn, value)
    ELSE TextFilterApply(column, "fuzzy", value)

\* for ... in aliases_needed: join unless the join path was applied already
RECURSIVE AttachJoins(_, _, _, _)
AttachJoins(query, applied, aliases_needed, i) ==
    IF i > Len(aliases_needed) THEN [query |-> query, applied |-> applied]
    ELSE LET a == aliases_needed[i]
         IN IF a.path \notin applied
            THEN AttachJoins([query EXCEPT !.joins = Append(@, a)],
                             applied \cup {a.path}, aliases_needed, i + 1)
            ELSE AttachJoins(query, applied, aliases_needed, i + 1)

QueryWhere(query, clause) ==
    IF clause.kind = "none" THEN query
    ELSE [query EXCEPT !.where = Append(@, clause)]

\* QueryBuilder._apply_filter: the whole handler, as a function of the builder
ApplyFilter(path, filter_fn, value, query, joins, counter, applied, invalid) ==
    LET path_info == AnalyzePath(path)
        unchanged(raised, inv) ==
            [query |-> query, joins |-> joins, counter |-> counter,
             applied |-> applied, invalid |-> inv, raised |-> raised]
    IN IF ~path_info.ok
       THEN unchanged("none", Append(invalid, path))
       ELSE LET r == ResolveNestedPath(path, joins, counter)
            IN IF ~r.ok
               THEN [query |-> query, joins |-> r.joins, counter |-> r.counter,
                     applied |-> applied, invalid |-> Append(invalid, path),
                     raised |-> "none"]
               ELSE LET j == AttachJoins(query, applied, r.aliases_needed, 1)
                        f == ApplyFilterByType(r.column, path_info.column_type,
                                               filter_fn, value)
                    IN IF f.raised = "none"
                       THEN [query |-> QueryWhere(j.query, f.clause),
                             joins |-> r.joins, counter |-> r.counter,
                             applied |-> j.applied, invalid |-> invalid,
                             raised |-> "none"]
                       ELSE IF f.raised = "ValueError"
                       THEN [query |-> j.query, joins |-> r.joins,
                             counter |-> r.counter, applied |-> j.applied,
                             invalid |-> Append(invalid, path), raised |-> "none"]
                       ELSE [query |-> j.query, joins |-> r.joins,
                             counter |-> r.counter, applied |-> j.applied,
                             invalid |-> Append(invalid, path),
                             raised |-> f.raised]

\* QueryBuilder._apply_sorting
ApplySortingOne(column_path, descending, query, joins, counter, applied, invalid) ==
    LET path_info == AnalyzePath(column_path)
    IN IF ~path_info.ok \/ path_info.column_type = "relation"
       THEN [query |-> query, joins |-> joins, counter |-> counter,
             applied |-> applied, invalid |-> Append(invalid, column_path)]
       ELSE LET r == ResolveNestedPath(column_path, joins, counter)
            IN IF ~r.ok
               THEN [query |-> query, joins |-> r.joins, counter |-> r.counter,
                     applied |-> applied,
                     invalid |-> Append(invalid, column_path)]
               ELSE LET j == AttachJoins(query, applied, r.aliases_needed, 1)
                    IN [query |-> [j.query EXCEPT !.order =
                                      Append(@, [column |-> r.column,
                                                 desc |-> descending])],
                        joins |-> r.joins, counter |-> r.counter,
                        applied |-> j.applied, invalid |-> invalid]

\* variant that adds the predicate for an empty global filter too
ApplyGlobalFilterUnguarded(query, global_filter) ==
    [query EXCEPT !.where =
        Append(@, [kind |-> "global",
                   column |-> [alias |-> -1, path |-> <<>>, attr |-> ""],
                   op |-> "contains",
                   value |-> [kind |-> "str", v |-> global_filter, n |-> 0]])]

\* QueryBuilder._apply_global_filter: OR of ilike over the root text columns
ApplyGlobalFilter(query, global_filter) ==
    IF global_filter = "" THEN query
    ELSE LET text_columns == {c \in DOMAIN ModelColumns(RootModel) :
                                 ModelColumns(RootModel)[c] = "text"}
         IN IF text_columns = {} THEN query
            ELSE [query EXCEPT !.where =
                     Append(@, [kind |-> "global",
                                column |-> [alias |-> -1, path |-> <<>>, attr |-> ""],
                                op |-> "contains",
                                value |-> [kind |-> "str", v |-> global_filter, n |-> 0]])]

\* variant that counts the page instead of the whole result
GetRowCountQueryPaged(query) ==
    [query EXCEPT !.paged = TRUE,
                  !.offset = qbReq.pagination.pageIndex * qbReq.pagination.pageSize,
                  !.limit = qbReq.pagination.pageSize]

\* select(func.count()).select_from(self.query.subquery())
GetRowCountQuery(query) == query

\* QueryBuilder._apply_pagination
ApplyPagination(query, page_index, page_size) ==
    [query EXCEPT !.paged = TRUE, !.offset = page_index * page_size,
                  !.limit = page_size]

(***************************************************************************)
(* Executing a query over a table of 20 orders, 15 of them OPEN            *)
(***************************************************************************)
OrderRows == 1..20

\* value of a resolved column on an order row (every order has a customer and
\* every customer a region, so the N:1 joins keep each row exactly once)
ColumnValue(row, column) ==
    LET customer == IF row % 2 = 0 THEN "ann" ELSE "bob"
    IN CASE column.path = <<>> /\ column.attr = "status" ->
                IF row <= 15 THEN "OPEN" ELSE "CLOSED"
         [] column.path = <<>> /\ column.attr = "amount" -> row * 10
         [] column.path = <<"customer">> /\ column.attr = "name" -> customer
         [] column.path = <<"customer", "region">> /\ column.attr = "code" ->
                IF customer = "ann" THEN "kr" ELSE "us"
         [] OTHER -> "?"

ItemCount(row) == row % 3

\* the case-insensitive substrings used as filter values
IContains(text, part) ==
    \/ part = ""
    \/ part = text
    \/ <<text, part>> \in {<<"OPEN", "PEN">>, <<"OPEN", "OP">>, <<"CLOSED", "LOS">>}

\* the column holds numbers
IsNumberColumn(column) == column.path = <<>> /\ column.attr = "amount"

\* cast(column, String) of a number up to 999 contains the one-digit part
DigitsContain(number, digit) ==
    \/ number % 10 = digit
    \/ number >= 10 /\ (number \div 10) % 10 = digit
    \/ number >= 100 /\ number \div 100 = digit

ClauseHolds(row, clause) ==
    CASE clause.kind = "global" ->
            \E c \in {"status"} :
               IContains(ColumnValue(row, [alias |-> -1, path |-> <<>>, attr |-> c]),
                         clause.value.v)
      [] clause.kind = "text" /\ IsNumberColumn(clause.column) ->
            IF clause.op = "equals"
            THEN ColumnValue(row, clause.column) = clause.value.n
            ELSE DigitsContain(ColumnValue(row, clause.column), clause.value.n)
      [] clause.kind = "text" /\ ~IsNumberColumn(clause.column)
            /\ clause.op = "equals" ->
            ColumnValue(row, clause.column) = clause.value.v
      [] clause.kind = "text" /\ ~IsNumberColumn(clause.column)
            /\ clause.op \in {"contains", "fuzzy"} ->
            IContains(ColumnValue(row, clause.column), clause.value.v)
      [] clause.kind = "list" ->
            IF IsNumberColumn(clause.column)
            THEN ColumnValue(row, clause.column) = clause.value.n
            ELSE ColumnValue(row, clause.column) = clause.value.v
      [] clause.kind = "number" -> ColumnValue(row, clause.column) = clause.value.n
      [] clause.kind = "relation" /\ clause.op = "hasChild" -> ItemCount(row) > 0
      [] OTHER -> TRUE

MatchingRows(query) ==
    {row \in OrderRows :
        \A i \in 1..Len(query.where) : ClauseHolds(row, query.where[i])}

Min(a, b) == IF a < b THEN a ELSE b
Max(a, b) == IF a > b THEN a ELSE b

\* number of rows the query returns
ExecuteRowCount(query) ==
    LET n == Cardinality(MatchingRows(query))
    IN IF query.paged THEN Min(query.limit, Max(0, n - query.offset)) ELSE n

(***************************************************************************)
(* RelationshipUpdater: the children of one parent's one-to-many relation  *)
(***************************************************************************)
\* a value that the relation's base schema rejects (model_validate raises)
NULL == "NULL"

\* attributes of a child instance: the base schema's fields, the primary
\* key, the soft-delete column and the audit metadata
InstanceFields == Fields \cup {"idx", "deleted", "updated_at", "updated_by"}

\* the children a parent is loaded with: key, title (maybe invalid), flag
ChildShapes == [id : Ids, title : {"A", NULL}, deleted : BOOLEAN]

\* the records of a new payload, and a record that does not validate
PayloadItems == [id : Ids, title : Titles]
MalformedItem == [id |-> 1, title |-> NULL]

\* the new payloads handed to the reconciliation
Payloads == SeqsUpTo(PayloadItems, MaxPayload) \cup {<<MalformedItem>>}

\* per-relation configuration of the handler: relationship_deleted_columns,
\* relationship_key_fields, relationship_exclude_fields
RecConfigs ==
    [soft_delete_column : {"", "deleted"},
     key_fields : {{}, {"id"}},
     exclude_fields : {{}, {"title"}}]

NoCall == [status |-> "none", before |-> <<>>, objs |-> <<>>, payload |-> <<>>,
           soft |-> FALSE, already |-> {}, removed |-> {}, matched |-> {},
           created |-> {}]

\* base_schema.model_validate(...) succeeds
Convertible(data) == data.title # NULL

\* base_schema.model_validate(item.model_dump())
ToBase(data) == [cls |-> "User", id |-> data.id, title |-> data.title]

Range(seq) == {seq[i] : i \in 1..Len(seq)}

\* [f(x) for x in seq]
RECURSIVE BaseItems(_, _)
BaseItems(seq, objs) ==
    IF seq = <<>> THEN <<>>
    ELSE <<ToBase(objs[Head(seq)])>> \o BaseItems(Tail(seq), objs)

\* every order in which the items of a bucket can be iterated
RECURSIVE Orderings(_)
Orderings(S) ==
    IF S = {} THEN {<<>>}
    ELSE UNION {{<<x>> \o rest : rest \in Orderings(S \ {x})} : x \in S}

\* _find_matching_instance: the first instance whose key-field values equal
\* those of the base item; 0 stands for None
FindMatchingInstance(base_item, existing_instances, key_fields_arg, objs) ==
    LET key_fields == IF key_fields_arg = {} THEN Fields ELSE key_fields_arg
        base_key_values == [f \in key_fields \cap Fields |-> base_item[f]]
        instance_key_values(i) ==
            [f \in key_fields \cap InstanceFields |-> objs[i][f]]
        hits == {n \in 1..Len(existing_instances) :
                    instance_key_values(existing_instances[n]) = base_key_values}
    IN IF hits = {} THEN 0
       ELSE existing_instances[CHOOSE n \in hits : \A m \in hits : n <= m]

\* MetadataManager.update_instance_metadata
UpdateInstanceMetadata(instance, now) ==
    [instance EXCEPT !.updated_at = now, !.updated_by = "user"]

\* MetadataManager.add_soft_delete_metadata (safe_setattr sets the column
\* only when the instance has it)
AddSoftDeleteMetadata(instance, soft_delete_column, now) ==
    UpdateInstanceMetadata(
        IF soft_delete_column \in DOMAIN instance
        THEN [instance EXCEPT ![soft_delete_column] = TRUE]
        ELSE instance, now)

\* setattr(matching_instance, field, change["new"]) for the changed fields
\* the instance has and that are not excluded
ApplyChangedFields(instance, changed_fields, exclude_fields) ==
    [f \in DOMAIN instance |->
        IF f \in DOMAIN changed_fields /\ f \notin exclude_fields
        THEN changed_fields[f].new ELSE instance[f]]

\* 1. unchanged: keep the matching instance
RECURSIVE KeepUnchanged(_, _, _, _)
KeepUnchanged(items, st, comparison_items, key_fields) ==
    IF items = <<>> THEN st
    ELSE LET m == FindMatchingInstance(Head(items), comparison_items,
                                       key_fields, st.objs)
         IN KeepUnchanged(Tail(items),
                IF m = 0 THEN st
                ELSE [st EXCEPT !.final = Append(@, m),
                                !.matched = @ \cup {m}],
                comparison_items, key_fields)

\* 2. modified: set the changed fields on the matching instance and stamp it
RECURSIVE UpdateModified(_, _, _, _, _, _)
UpdateModified(items, st, comparison_items, key_fields, exclude_fields, now) ==
    IF items = <<>> THEN st
    ELSE LET m == FindMatchingInstance(Head(items).old_item, comparison_items,
                                       key_fields, st.objs)
         IN UpdateModified(Tail(items),
                IF m = 0 THEN st
                ELSE [st EXCEPT
                        !.objs[m] = UpdateInstanceMetadata(
                                        ApplyChangedFields(@, Head(items).changed_fields,
                                                           exclude_fields), now),
                        !.final = Append(@, m),
                        !.matched = @ \cup {m}],
                comparison_items, key_fields, exclude_fields, now)

\* 3. added: create_nested_callback builds a new instance of the added record
RECURSIVE CreateAdded(_, _)
CreateAdded(items, st) ==
    IF items = <<>> THEN st
    ELSE LET idx == Len(st.objs) + 1
             new_instance == [idx |-> idx, id |-> Head(items).id,
                              title |-> Head(items).title, deleted |-> FALSE,
                              updated_at |-> 0, updated_by |-> ""]
         IN CreateAdded(Tail(items),
                [st EXCEPT !.objs = Append(@, new_instance),
                           !.final = Append(@, idx),
                           !.created = @ \cup {idx}])

\* 4. removed: flag the matching instance and keep it, or session.delete it
RECURSIVE DeleteRemoved(_, _, _, _, _, _)
DeleteRemoved(items, st, comparison_items, key_fields, soft_delete_column, now) ==
    IF items = <<>> THEN st
    ELSE LET m == FindMatchingInstance(Head(items), comparison_items,
                                       key_fields, st.objs)
         IN DeleteRemoved(Tail(items),
                IF m = 0 THEN st
                ELSE IF soft_delete_column # ""
                THEN [st EXCEPT
                        !.objs[m] = AddSoftDeleteMetadata(@, soft_delete_column, now),
                        !.final = Append(@, m),
                        !.matched = @ \cup {m}]
                ELSE [st EXCEPT !.session_deleted = @ \cup {m},
                                !.matched = @ \cup {m}],
                comparison_items, key_fields, soft_delete_column, now)

\* variant that compares the soft-deleted children as well
ComparisonItemsAll(existing_items, objs, soft_delete_column) == existing_items

\* the children compared with the payload: the active ones under soft
\* delete, all of them otherwise
ComparisonItems(existing_items, objs, soft_delete_column) ==
    IF soft_delete_column # ""
    THEN SelectSeq(existing_items,
                   LAMBDA i : soft_delete_column \in DOMAIN objs[i]
                              /\ ~objs[i][soft_delete_column])
    ELSE existing_items

\* the children that are soft-deleted already: re-attached first, untouched
AlreadyDeletedItems(existing_items, objs, soft_delete_column) ==
    IF soft_delete_column # ""
    THEN SelectSeq(existing_items,
                   LAMBDA i : soft_delete_column \in DOMAIN objs[i]
                              /\ objs[i][soft_delete_column])
    ELSE <<>>

\* variant that skips the payload records that do not validate
ReconcileComparatorSkipping(existing_items, objs, new_data, config) ==
    LET comparison_items ==
            ComparisonItems(existing_items, objs, config.soft_delete_column)
        existing_base_items ==
            BaseItems(SelectSeq(comparison_items, LAMBDA i : Convertible(objs[i])),
                      objs)
        valid == SelectSeq(new_data, Convertible)
        new_base_items == [n \in 1..Len(valid) |-> ToBase(valid[n])]
    IN ComparatorInit(existing_base_items, new_base_items,
                      config.key_fields, config.exclude_fields)

\* the comparator built by update_one_to_many_relationship, or the exception
\* raised before it (a payload record that does not validate)
ReconcileComparator(existing_items, objs, new_data, config) ==
    LET comparison_items ==
            ComparisonItems(existing_items, objs, config.soft_delete_column)
        existing_base_items ==
            BaseItems(SelectSeq(comparison_items, LAMBDA i : Convertible(objs[i])),
                      objs)
        new_base_items == [n \in 1..Len(new_data) |-> ToBase(new_data[n])]
    IN IF \E n \in 1..Len(new_data) : ~Convertible(new_data[n])
       THEN [raised |-> "ValidationError", obj |-> EmptyObj]
       ELSE ComparatorInit(existing_base_items, new_base_items,
                           config.key_fields, config.exclude_fields)

\* the children whose base item the comparator put into `removed`
ClassifiedRemoved(existing_items, objs, config, result) ==
    {i \in Range(ComparisonItems(existing_items, objs, config.soft_delete_column)) :
        Convertible(objs[i]) /\ ToBase(objs[i]) \in result.removed}

\* update_one_to_many_relationship after the comparison, for one iteration
\* order of each bucket
ReconcileApply(existing_items, objs, config, result, orders, session_deleted, now) ==
    LET comparison_items ==
            ComparisonItems(existing_items, objs, config.soft_delete_column)
        st0 == [objs |-> objs,
                final |-> AlreadyDeletedItems(existing_items, objs,
                                              config.soft_delete_column),
                session_deleted |-> session_deleted,
                matched |-> {}, created |-> {}]
        st1 == KeepUnchanged(orders.unchanged, st0, comparison_items,
                             config.key_fields)
        st2 == UpdateModified(orders.modified, st1, comparison_items,
                              config.key_fields, config.exclude_fields, now)
        st3 == CreateAdded(orders.added, st2)
    IN DeleteRemoved(orders.removed, st3, comparison_items, config.key_fields,
                     config.soft_delete_column, now)

(***************************************************************************)
(* DataProcessor and NestedRelationshipHandler: the entity graph           *)
(***************************************************************************)
\* ModelInspector.get_columns of the entity types the handler is run on
SynColumns(model) ==
    CASE model = "Author" -> {"name", "deleted", "updated_at", "updated_by"}
      [] model = "Article" -> {"id", "title", "deleted"}
      [] model = "Publisher" -> {"name", "deleted"}
      [] model = "Tag" -> {"label"}
      [] model = "Profile" -> {"bio", "deleted"}

\* ModelInspector.get_relationships: relation key -> direction name and
\* related model (get_related_model); Article.replies is a self-reference,
\* Author.articles / Article.author a cycle
SynRelationships(model) ==
    CASE model = "Author" ->
            [articles |-> [direction |-> "ONETOMANY", target |-> "Article"],
             publisher |-> [direction |-> "MANYTOONE", target |-> "Publisher"],
             tags |-> [direction |-> "MANYTOMANY", target |-> "Tag"],
             profile |-> [direction |-> "ONETOONE", target |-> "Profile"]]
      [] model = "Article" ->
            [author |-> [direction |-> "MANYTOONE", target |-> "Author"],
             replies |-> [direction |-> "ONETOMANY", target |-> "Article"]]
      [] OTHER -> <<>>

\* the values a payload carries under a relation key: a list, a dict, None,
\* or a primitive
PyList(items) == [kind |-> "list", items |-> items, d |-> <<>>]
PyDict(d) == [kind |-> "dict", items |-> <<>>, d |-> d]
PyNone == [kind |-> "none", items |-> <<>>, d |-> <<>>]
PyPrimitive == [kind |-> "primitive", items |-> <<>>, d |-> <<>>]

SetMax(S) == CHOOSE x \in S : \A y \in S : y <= x

\* what one run of process_nested_data gives back: the exception raised
\* ("" for none), the processed value, the deepest `depth` any invocation
\* ran at, whether an invocation stopped at the depth limit
Processed(raised, out, deepest, truncated) ==
    [raised |-> raised, out |-> out, deepest |-> deepest,
     truncated |-> truncated]

\* variant in which no relation is skipped for being many-to-one
IsManyToOneNever(direction) == FALSE

\* `direction == "MANYTOONE"`: the relation is a foreign-key reference only
IsManyToOne(direction) == direction = "MANYTOONE"

RECURSIVE ProcessNestedData(_, _, _, _, _, _)
RECURSIVE ProcessOneToManyItems(_, _, _, _, _, _)

\* processed_list.append(processed_item), item after item
ProcessedThen(first, rest) ==
    Processed(IF first.raised # "" THEN first.raised ELSE rest.raised,
              <<PyDict(first.out)>> \o rest.out,
              Max(first.deepest, rest.deepest),
              first.truncated \/ rest.truncated)

\* the loop of _process_one_to_many_value over the items of the list
ProcessOneToManyItems(items, related_model, parent_model, visited_models, depth, max_depth) ==
    IF items = <<>> THEN Processed("", <<>>, depth, FALSE)
    ELSE IF Head(items).kind # "dict"
    THEN Processed("ValueError", <<>>, depth, FALSE)
    ELSE ProcessedThen(
             ProcessNestedData(Head(items).d, related_model, parent_model,
                               visited_models, depth + 1, max_depth),
             ProcessOneToManyItems(Tail(items), related_model, parent_model,
                                   visited_models, depth, max_depth))

\* the processed value wrapped as the list / the record it is
Wrapped(r, out) == [r EXCEPT !.out = out]
AsList(r) == Wrapped(r, PyList(r.out))
AsDict(r) == Wrapped(r, PyDict(r.out))

\* _process_one_to_many_value: a value that is no list becomes []
ProcessOneToManyValue(value, related_model, parent_model, visited_models, depth, max_depth) ==
    IF value.kind # "list" THEN Processed("", PyList(<<>>), depth, FALSE)
    ELSE AsList(ProcessOneToManyItems(value.items, related_model, parent_model,
                                      visited_models, depth, max_depth))

\* _process_one_to_one_value
ProcessOneToOneValue(value, related_model, parent_model, visited_models, depth, max_depth) ==
    IF value.kind = "none" THEN Processed("", PyNone, depth, FALSE)
    ELSE IF value.kind = "dict"
    THEN AsDict(ProcessNestedData(value.d, related_model, parent_model,
                                  visited_models, depth + 1, max_depth))
    ELSE Processed("ValueError", PyNone, depth, FALSE)

\* processed_data at the end of process_nested_data: the columns of the
\* data as they are, the relation keys as `sub` has them processed
ProcessedData(data, columns, depth, sub) ==
    Processed(IF \E key \in DOMAIN sub : sub[key].raised # ""
              THEN "ValueError" ELSE "",
              [key \in (DOMAIN data \cap columns) \cup DOMAIN sub |->
                  IF key \in columns THEN data[key] ELSE sub[key].out],
              SetMax({depth} \cup {sub[key].deepest : key \in DOMAIN sub}),
              \E key \in DOMAIN sub : sub[key].truncated)

\* DataProcessor.process_nested_data; parent_model "" stands for None
ProcessNestedData(data, model, parent_model, visited_models, depth, max_depth) ==
    IF depth >= max_depth THEN Processed("", data, depth, TRUE)
    ELSE IF model \in visited_models THEN Processed("", data, depth, FALSE)
    ELSE LET visited == visited_models \cup {model}
             relationships == SynRelationships(model)
             columns == SynColumns(model)
             Skipped(key) ==
                 \/ parent_model # "" /\ relationships[key].target = parent_model
                 \/ IsManyToOne(relationships[key].direction)
                 \/ relationships[key].direction = "MANYTOMANY"
         IN ProcessedData(data, columns, depth,
                [key \in {k \in DOMAIN data :
                              /\ k \notin columns
                              /\ k \in DOMAIN relationships
                              /\ ~Skipped(k)} |->
                    IF relationships[key].direction = "ONETOMANY"
                    THEN ProcessOneToManyValue(data[key],
                             relationships[key].target, model, visited,
                             depth, max_depth)
                    ELSE IF relationships[key].direction = "ONETOONE"
                    THEN ProcessOneToOneValue(data[key],
                             relationships[key].target, model, visited,
                             depth, max_depth)
                    ELSE Processed("", data[key], depth, FALSE)])

\* max_depth when the caller passes none
DefaultMaxDepth == 10

\* an instance handed to session.add: its model and where in the payload it
\* came from (a sequence of relation key and position)
RECURSIVE CreateWithNested(_, _, _)
RECURSIVE CreateNestedItems(_, _, _, _, _)

\* the outcome of two nested creations in a row: the second one is not
\* started when the first one raises
CreatedThen(first, rest) ==
    IF first.raised # "" THEN first
    ELSE [raised |-> rest.raised, created |-> first.created \cup rest.created]

\* the loop of create_with_nested over the items of a list value
CreateNestedItems(items, n, related_model, key, path) ==
    IF n > Len(items) THEN [raised |-> "", created |-> {}]
    ELSE IF items[n].kind # "dict"
    THEN CreateNestedItems(items, n + 1, related_model, key, path)
    ELSE CreatedThen(CreateWithNested(related_model, items[n].d,
                                      Append(path, [key |-> key, n |-> n])),
                     CreateNestedItems(items, n + 1, related_model, key, path))

\* create_with_nested once the data is processed: the nested instances are
\* built first, then the instance itself is added to the session
CreateProcessed(model, p, sub, path) ==
    IF p.raised # "" THEN [raised |-> p.raised, created |-> {}]
    ELSE IF \E key \in DOMAIN sub : sub[key].raised # ""
    THEN [raised |-> "ValueError",
          created |-> UNION {sub[key].created : key \in DOMAIN sub}]
    ELSE [raised |-> "",
          created |-> {[model |-> model, path |-> path]}
                         \cup UNION {sub[key].created : key \in DOMAIN sub}]

\* the nested creations of create_with_nested, by relation key
CreateNested(model, p, path) ==
    LET relationships == SynRelationships(model)
    IN [key \in IF p.raised # "" THEN {}
                ELSE {k \in DOMAIN p.out : k \in DOMAIN relationships} |->
           IF p.out[key].kind = "list"
           THEN CreateNestedItems(p.out[key].items, 1,
                                  relationships[key].target, key, path)
           ELSE IF p.out[key].kind = "dict"
           THEN CreateWithNested(relationships[key].target, p.out[key].d,
                                 Append(path, [key |-> key, n |-> 0]))
           ELSE [raised |-> "", created |-> {}]]

\* the processed data of create_with_nested and what is built from it
CreateFrom(model, p, path) == CreateProcessed(model, p, CreateNested(model, p, path), path)

\* NestedRelationshipHandler.create_with_nested: the instances it builds and
\* adds to the session, or the exception it raises
CreateWithNested(model, data, path) ==
    CreateFrom(model, ProcessNestedData(data, model, "", {}, 0, DefaultMaxDepth),
               path)

\* MetadataManager.restore_soft_deleted_metadata
RestoreSoftDeletedMetadata(instance, soft_delete_column, now) ==
    UpdateInstanceMetadata(
        IF soft_delete_column \in DOMAIN instance
        THEN [instance EXCEPT ![soft_delete_column] = FALSE]
        ELSE instance, now)

\* the soft delete / restore loop over the related items of a one-to-many
\* relation
FlagRelatedItems(objs, children, rel_deleted_column, flag, now) ==
    [i \in 1..Len(objs) |->
        IF i \in Range(children)
        THEN IF flag THEN AddSoftDeleteMetadata(objs[i], rel_deleted_column, now)
             ELSE RestoreSoftDeletedMetadata(objs[i], rel_deleted_column, now)
        ELSE objs[i]]

\* what the handler has done before its first call; flags_before keeps the
\* delete flags the one-to-many items had when a delete or restore began
NoSynCall ==
    [op |-> "none", status |-> "none", model |-> "", payload |-> <<>>,
     soft |-> FALSE, max_depth |-> 0, deepest |-> 0, truncated |-> FALSE,
     created |-> {}, flags_before |-> <<>>]

(***************************************************************************)
(* Filter compilers: RelationFilter, NumberFilter, DateFilter              *)
(***************************************************************************)
\* a filter value: None, a string or a number
FNone == [kind |-> "none", v |-> "", n |-> 0]
FStr(s) == [kind |-> "str", v |-> s, n |-> 0]
FNum(k) == [kind |-> "num", v |-> "", n |-> k]

\* SQL expressions the filters build: a comparison of a column, `column ==
\* column`, and_(...), ~e, relationship.any(e) / any(), relationship.has(e)
FTrue == [op |-> "true", args |-> <<>>, cond |-> <<>>]
FCmp(column, operator, value) ==
    [op |-> "cmp", args |-> <<>>,
     cond |-> [column |-> column, operator |-> operator, value |-> value]]
FAnd(args) == [op |-> "and", args |-> args, cond |-> <<>>]
FNot(e) == [op |-> "not", args |-> <<e>>, cond |-> <<>>]
FAny(args) == [op |-> "any", args |-> args, cond |-> <<>>]
FHas(e) == [op |-> "has", args |-> <<e>>, cond |-> <<>>]
FRaised(exc) == [op |-> exc, args |-> <<>>, cond |-> <<>>]
FUnset == [op |-> "unset", args |-> <<>>, cond |-> <<>>]

\* the rows of the related model Item, each with its product, and the
\* parents (Order) that own up to MaxRelated of them
ItemRows == [sku : {"ab", "b"}, qty : {1, 2}]
ProductName(row) == IF row.sku = "ab" THEN "p" ELSE "q"
MaxRelated == 2
Parents ==
    [status : {"OPEN", "DONE"},
     items : {S \in SUBSET ItemRows : Cardinality(S) <= MaxRelated}]

\* the last segment names a column of the model the path ends in; the model
\* a nested path of Item ends in: Item.order -> Order, Item.product -> Product
FinalModel(column) ==
    CASE column = "order.status" -> "Order"
      [] column = "product.name" -> "Product"
      [] OTHER -> "Item"

\* the value a sub-condition column has for a related row of the parent
SubColumnValue(column, row, parent) ==
    CASE column = "sku" -> FStr(row.sku)
      [] column = "qty" -> FNum(row.qty)
      [] column = "product.name" -> FStr(ProductName(row))
      [] column = "order.status" -> FStr(parent.status)

\* LIKE '%part%' over the strings of the rows
Like(text, part) == part = text \/ <<text, part>> \in {<<"ab", "a">>, <<"ab", "b">>}

\* what a comparison built by _create_operator_condition holds for
CondHolds(cond, row, parent) ==
    LET x == SubColumnValue(cond.column, row, parent)
    IN CASE cond.operator = "equals" -> x = cond.value
         [] cond.operator = "notEquals" -> x # cond.value
         [] cond.operator = "contains" -> Like(x.v, cond.value.v)
         [] cond.operator = "notContains" -> ~Like(x.v, cond.value.v)
         [] cond.operator = "greaterThan" -> x.n > cond.value.n
         [] cond.operator = "lessThan" -> x.n < cond.value.n
         [] cond.operator = "greaterThanOrEqual" -> x.n >= cond.value.n
         [] cond.operator = "lessThanOrEqual" -> x.n <= cond.value.n
         [] cond.operator = "in" -> x = cond.value
         [] cond.operator = "notIn" -> x # cond.value
         [] cond.operator = "isNull" -> FALSE

\* the rows an expression selects: whether it holds for a related row of the
\* parent (for the parent itself outside any()); a comparison on a column
\* of Product is taken for the product of the row
RECURSIVE Eval(_, _, _)
Eval(e, row, parent) ==
    CASE e.op = "true" -> TRUE
      [] e.op = "cmp" -> CondHolds(e.cond, row, parent)
      [] e.op = "and" -> \A i \in 1..Len(e.args) : Eval(e.args[i], row, parent)
      [] e.op = "not" -> ~Eval(e.args[1], row, parent)
      [] e.op = "has" -> Eval(e.args[1], row, parent)
      [] e.op = "any" ->
            \E r \in parent.items : e.args = <<>> \/ Eval(e.args[1], r, parent)

RelationValueOperators ==
    {"equals", "notEquals", "contains", "notContains", "greaterThan", "lessThan",
     "greaterThanOrEqual", "lessThanOrEqual", "in", "notIn", "isNull"}

\* RelationFilter._create_operator_condition
CreateOperatorCondition(value, invert_condition) ==
    IF value.operator \notin RelationValueOperators THEN FRaised("ValueError")
    ELSE IF invert_condition
    THEN FNot(FCmp(value.column, value.operator, value.value))
    ELSE FCmp(value.column, value.operator, value.value)

\* the column path of a sub-condition is nested
IsNestedColumn(column) == column \in {"order.status", "product.name"}

\* RelationFilter._apply_operator_conditions: a nested path that ends in the
\* model of the filter is wrapped in has(), any other condition is put on
\* the final column
ApplyOperatorConditions(values, invert_condition) ==
    FAnd([i \in 1..Len(values) |->
            IF IsNestedColumn(values[i].column)
               /\ FinalModel(values[i].column) = "Order"
            THEN FHas(CreateOperatorCondition(values[i], invert_condition))
            ELSE CreateOperatorCondition(values[i], invert_condition)])

\* RelationFilter._apply_join_conditions: the local == remote pairs of every
\* nested path, or True when there is none; a pair holds for a row and the
\* row it is related to
ApplyJoinConditions(values) ==
    LET nested == SelectSeq(values, LAMBDA v : IsNestedColumn(v.column))
    IN IF nested = <<>> THEN FTrue
       ELSE FAnd([i \in 1..Len(nested) |-> FTrue])

\* variant that never sees a self-reference
IsSelfReferenceRelationNever(values) == FALSE

\* RelationFilter._is_self_reference_relation
IsSelfReferenceRelation(values) ==
    \E i \in 1..Len(values) :
        IsNestedColumn(values[i].column) /\ FinalModel(values[i].column) = "Order"

\* the join condition and the operator condition put together
FullCondition(join_condition, operator_condition) ==
    IF join_condition = FTrue THEN operator_condition
    ELSE FAnd(<<join_condition, operator_condition>>)

\* RelationFilter._apply_has_any
ApplyHasAny(values) ==
    IF IsSelfReferenceRelation(values)
    THEN IF Len(values) > 1
         THEN FAnd([i \in 1..Len(values) |->
                      FAny(<<ApplyOperatorConditions(<<values[i]>>, FALSE)>>)])
         ELSE FAny(<<ApplyOperatorConditions(<<values[1]>>, FALSE)>>)
    ELSE FAny(<<FullCondition(ApplyJoinConditions(values),
                              ApplyOperatorConditions(values, FALSE))>>)

\* RelationFilter._get_inverted_operator
GetInvertedOperator(operator) ==
    CASE operator = "equals" -> "notEquals"
      [] operator = "notEquals" -> "equals"
      [] operator = "contains" -> "notContains"
      [] operator = "notContains" -> "contains"
      [] operator = "greaterThan" -> "lessThanOrEqual"
      [] operator = "lessThan" -> "greaterThanOrEqual"
      [] operator = "greaterThanOrEqual" -> "lessThan"
      [] operator = "lessThanOrEqual" -> "greaterThan"
      [] operator = "in" -> "notIn"
      [] operator = "notIn" -> "in"
      [] OTHER -> operator

\* RelationFilter._apply_has_all
ApplyHasAll(values) ==
    IF IsSelfReferenceRelation(values)
    THEN FAnd(<<FAny(<<>>)>> \o
              [i \in 1..Len(values) |->
                  FNot(FAny(<<ApplyOperatorConditions(
                                 <<[values[i] EXCEPT !.operator =
                                       GetInvertedOperator(@)]>>, FALSE)>>))])
    ELSE FAnd(<<FAny(<<>>),
                FNot(FAny(<<FullCondition(ApplyJoinConditions(values),
                                ApplyOperatorConditions(values, TRUE))>>))>>)

\* RelationFilter.apply: the condition added to the query
RelationFilterCompile(operator, values) ==
    CASE operator = "hasAny" -> ApplyHasAny(values)
      [] operator = "hasAll" -> ApplyHasAll(values)
      [] operator = "hasChild" -> FAny(<<>>)
      [] operator = "hasNotChild" -> FNot(FAny(<<>>))
      [] OTHER -> FRaised("ValueError")

\* `val is None or str(val).strip() == ""`
IsBlank(val) == val.kind = "none" \/ (val.kind = "str" /\ val.v \in {"", " "})

\* a comparison of the filtered column with a bound
FBound(operator, val) == FCmp("column", operator, val)

\* the list handed to a scalar comparison
FList(value) == [kind |-> "list", v |-> "", n |-> Len(value)]

\* NumberFilter.apply, for a value that is a list
NumberFilterCompile(operator_arg, value) ==
    LET operator == IF operator_arg \in NUMBER_OPERATORS THEN operator_arg
                    ELSE "equals"
        scalar == IF value = <<>> THEN FNone ELSE value[1]
    IN IF Len(value) = 2 /\ operator \in {"between", "betweenInclusive"}
       THEN IF IsBlank(value[1]) /\ IsBlank(value[2]) THEN FTrue
            ELSE IF IsBlank(value[2]) THEN FBound("greaterThanOrEqualTo", value[1])
            ELSE IF IsBlank(value[1]) THEN FBound("lessThanOrEqualTo", value[2])
            ELSE IF operator = "between"
            THEN FAnd(<<FBound("greaterThan", value[1]),
                        FBound("lessThan", value[2])>>)
            ELSE FAnd(<<FBound("greaterThanOrEqualTo", value[1]),
                        FBound("lessThanOrEqualTo", value[2])>>)
       ELSE IF operator \in {"between", "betweenInclusive"}
       THEN FBound("equals", scalar)
       ELSE FBound(operator, scalar)

\* the ISO dates used as bounds, as day numbers
DateStrings == {"2024-01-01", "2024-01-03"}

\* datetime.fromisoformat(val.replace('Z', '+00:00')): the day of a date
\* string; any other string raises ValueError, a value that is no string
\* AttributeError
FromIsoFormat(val) ==
    IF val.kind = "str" /\ val.v \in DateStrings
    THEN [raised |-> "", date |-> FNum(IF val.v = "2024-01-01" THEN 1 ELSE 3)]
    ELSE [raised |-> IF val.kind = "str" THEN "ValueError" ELSE "AttributeError",
          date |-> FNone]

\* DateFilter.apply, for a value that is a list
DateFilterCompile(operator_arg, value) ==
    LET operator == IF operator_arg \in DATE_OPERATORS THEN operator_arg
                    ELSE "equals"
        parsed == [i \in 1..Len(value) |->
                      IF value[i].kind = "none" THEN [raised |-> "", date |-> FNone]
                      ELSE FromIsoFormat(value[i])]
    IN IF operator \notin {"between", "betweenInclusive"}
       THEN FBound("equals", FList(value))
       ELSE IF Len(value) # 2 THEN FBound("equals", FList(value))
       ELSE IF \E i \in 1..2 : parsed[i].raised # ""
       THEN FBound("equals", FList(value))
       ELSE IF parsed[1].date = FNone /\ parsed[2].date = FNone THEN FTrue
       ELSE IF parsed[2].date = FNone
       THEN FBound("greaterThanOrEqualTo", parsed[1].date)
       ELSE IF parsed[1].date = FNone
       THEN FBound("lessThanOrEqualTo", parsed[2].date)
       ELSE IF operator = "between"
       THEN FAnd(<<FBound("greaterThan", parsed[1].date),
                   FBound("lessThan", parsed[2].date)>>)
       ELSE FAnd(<<FBound("greaterThanOrEqualTo", parsed[1].date),
                   FBound("lessThanOrEqualTo", parsed[2].date)>>)

\* whether a row whose column has the number (the day) x satisfies the
\* compiled predicate; a column never equals a list
RECURSIVE BoundHolds(_, _)
BoundHolds(e, x) ==
    CASE e.op = "true" -> TRUE
      [] e.op = "and" -> \A i \in 1..Len(e.args) : BoundHolds(e.args[i], x)
      [] e.op = "cmp" ->
            CASE e.cond.value.kind # "num" -> FALSE
              [] e.cond.operator = "equals" -> x = e.cond.value.n
              [] e.cond.operator = "notEquals" -> x # e.cond.value.n
              [] e.cond.operator = "lessThan" -> x < e.cond.value.n
              [] e.cond.operator = "lessThanOrEqualTo" -> x <= e.cond.value.n
              [] e.cond.operator = "greaterThan" -> x > e.cond.value.n
              [] e.cond.operator = "greaterThanOrEqualTo" -> x >= e.cond.value.n

(***************************************************************************)
(* Two reconciliations of different parents, step by step                  *)
(***************************************************************************)
\* the two parent instances that are reconciled, each by its own call
Parents2 == {1, 2}

\* the children the two parents are loaded with
ParChildShapes ==
    {[id |-> 1, title |-> "A", deleted |-> FALSE],
     [id |-> 2, title |-> "A", deleted |-> FALSE],
     [id |-> 1, title |-> NULL, deleted |-> FALSE],
     [id |-> 2, title |-> "A", deleted |-> TRUE]}

\* the records of the payloads of the two calls
ParPayloadItems == {[id |-> 1, title |-> "B"], [id |-> 2, title |-> "A"]}
ParPayloads == SeqsUpTo(ParPayloadItems, MaxParPayload) \cup {<<MalformedItem>>}

\* the locals of a call that has not begun
ParNoWork ==
    [status |-> "none", payload |-> <<>>, comparison_items |-> <<>>,
     todo |-> EmptyResult,
     taken |-> [unchanged |-> <<>>, modified |-> <<>>, added |-> <<>>,
                removed |-> <<>>],
     matched |-> {}, created |-> {}]

(***************************************************************************)
(* Idle values of the engines a specification does not exercise            *)
(***************************************************************************)
CmpIdle ==
    /\ cmpArgs = [old_list |-> <<>>, new_list |-> <<>>, key_fields |-> {},
                  exclude_fields |-> {}]
    /\ cmpObj = EmptyObj
    /\ cmpPhase = "new"
    /\ cmpRaised = "none"
    /\ cmpLastOp = "none"
    /\ cmpView = NoView

QbIdle ==
    /\ qbReq = DefaultRequest
    /\ qbQuery = EmptyQuery
    /\ qbCount = NoCount
    /\ qbJoins = <<>>
    /\ qbCounter = 0
    /\ qbApplied = {}
    /\ qbInvalid = <<>>
    /\ qbPc = "build"
    /\ qbIdx = 1

RecIdle ==
    /\ recCfg = [soft_delete_column |-> "", key_fields |-> {},
                 exclude_fields |-> {}]
    /\ recObjs = <<>>
    /\ recChildren = <<>>
    /\ recSessionDeleted = {}
    /\ recCalls = 0
    /\ recLast = NoCall
    /\ recEverRemoved = {}

SynIdle ==
    /\ synCfg = [soft_delete_column |-> "", key_fields |-> {},
                 exclude_fields |-> {}]
    /\ synInstance = <<>>
    /\ synRelated = <<>>
    /\ synObjs = <<>>
    /\ synChildren = <<>>
    /\ synSession = [added |-> {}, deleted |-> {}]
    /\ synCalls = 0
    /\ synLast = NoSynCall

FltIdle ==
    /\ fltIn = [filter |-> "none", operator |-> "", value |-> <<>>,
                parent |-> [status |-> "", items |-> {}]]
    /\ fltOut = FUnset

ParIdle ==
    /\ parCfg = [soft_delete_column |-> "", key_fields |-> {},
                 exclude_fields |-> {}]
    /\ parObjs = <<>>
    /\ parChildren = <<<<>>, <<>>>>
    /\ parSessionDeleted = {}
    /\ parPc = <<"idle", "idle">>
    /\ parWork = <<ParNoWork, ParNoWork>>
    /\ parFinal = <<<<>>, <<>>>>
    /\ parBefore = [objs |-> <<>>, children |-> <<<<>>, <<>>>>]

(***************************************************************************)
(* ModelComparator: state machine                                          *)
(***************************************************************************)
AttrAttempts ==
    {<<"_result", EmptyResult>>, <<"old_list", <<>>>>,
     <<"key_fields", {}>>, <<"_initialized", FALSE>>}

InitCmp ==
    /\ cmpArgs \in [old_list : SeqsUpTo(CmpModels, MaxLen),
                    new_list : SeqsUpTo(CmpModels, MaxLen),
                    key_fields : KeyFieldChoices,
                    exclude_fields : ExcludeFieldChoices]
    /\ cmpObj = EmptyObj
    /\ cmpPhase = "new"
    /\ cmpRaised = "none"
    /\ cmpLastOp = "none"
    /\ cmpView = NoView
    /\ QbIdle
    /\ RecIdle
    /\ SynIdle
    /\ FltIdle
    /\ ParIdle

CmpConstruct ==
    /\ cmpPhase = "new"
    /\ LET r == ComparatorInit(cmpArgs.old_list, cmpArgs.new_list,
                               cmpArgs.key_fields, cmpArgs.exclude_fields)
       IN /\ cmpObj' = r.obj
          /\ cmpRaised' = r.raised
          /\ cmpPhase' = IF r.raised = "none" THEN "ready" ELSE "failed"
    /\ cmpLastOp' = "init"
    /\ UNCHANGED <<cmpArgs, cmpView>>
    /\ UNCHANGED qbVars
    /\ UNCHANGED recVars
    /\ UNCHANGED synVars
    /\ UNCHANGED fltVars
    /\ UNCHANGED parVars

CmpSetAttr ==
    /\ cmpPhase = "ready"
    /\ \E a \in AttrAttempts :
          LET r == ObjSetAttr(cmpObj, a[1], a[2])
          IN /\ cmpObj' = r.obj
             /\ cmpRaised' = r.raised
    /\ cmpLastOp' = "setattr"
    /\ UNCHANGED <<cmpArgs, cmpPhase, cmpView>>
    /\ UNCHANGED qbVars
    /\ UNCHANGED recVars
    /\ UNCHANGED synVars
    /\ UNCHANGED fltVars
    /\ UNCHANGED parVars

CmpRead ==
    /\ cmpPhase = "ready"
    /\ cmpView' = PropertyView(cmpObj)
    /\ cmpRaised' = "none"
    /\ cmpLastOp' = "read"
    /\ UNCHANGED <<cmpArgs, cmpObj, cmpPhase>>
    /\ UNCHANGED qbVars
    /\ UNCHANGED recVars
    /\ UNCHANGED synVars
    /\ UNCHANGED fltVars
    /\ UNCHANGED parVars

NextCmp == CmpConstruct \/ CmpSetAttr \/ CmpRead

SpecCmp == InitCmp /\ [][NextCmp]_vars

(***************************************************************************)
(* QueryBuilder: state machine                                             *)
(***************************************************************************)
StrValue(s) == [kind |-> "str", v |-> s, n |-> 0]
ListValue(s) == [kind |-> "list", v |-> s, n |-> 0]

\* the (path, operator, value) triples handed to add_column_filter
FilterChoices ==
    {[id |-> <<"status">>, fn |-> "equals", value |-> StrValue("OPEN")],
     [id |-> <<"status">>, fn |-> "in", value |-> ListValue("OPEN")],
     [id |-> <<"status">>, fn |-> "in", value |-> StrValue("OPEN")],
     [id |-> <<"status">>, fn |-> "auto", value |-> StrValue("PEN")],
     [id |-> <<"amount">>, fn |-> "equals",
           value |-> [kind |-> "str", v |-> "50", n |-> 50]],
     [id |-> <<"customer", "name">>, fn |-> "equals", value |-> StrValue("ann")],
     [id |-> <<"customer", "region", "code">>, fn |-> "equals",
           value |-> StrValue("kr")],
     [id |-> <<"customer", "bogus">>, fn |-> "equals", value |-> StrValue("x")],
     [id |-> <<"items">>, fn |-> "hasChild", value |-> StrValue("1")],
     [id |-> <<"customer", "region">>, fn |-> "hasChild", value |-> StrValue("1")],
     [id |-> <<"amount">>, fn |-> "in",
           value |-> [kind |-> "list", v |-> "50", n |-> 50]],
     [id |-> <<"amount">>, fn |-> "contains",
           value |-> [kind |-> "str", v |-> "5", n |-> 5]],
     [id |-> <<"status">>, fn |-> "custom", value |-> StrValue("OPEN")]}

\* column filters whose value is None, empty or blank
BlankFilterChoices ==
    {[id |-> <<"status">>, fn |-> "equals", value |-> StrValue("")],
     [id |-> <<"status">>, fn |-> "contains", value |-> StrValue(" ")],
     [id |-> <<"status">>, fn |-> "in", value |-> ListValue("")],
     [id |-> <<"amount">>, fn |-> "equals", value |-> FNone]}

\* the column filters of the request_json handed to the constructor
JsonFilterChoices ==
    BlankFilterChoices \cup
    {[id |-> <<"status">>, fn |-> "equals2", value |-> StrValue("OPEN")],
     [id |-> <<"customer", "name">>, fn |-> "equals", value |-> StrValue("ann")]}

\* RequestInterpreter._is_valid_filter_value: None, a blank string and a
\* list with no entry that is neither None nor blank are not valid
IsValidFilterValue(value) ==
    CASE value.kind = "none" -> FALSE
      [] value.kind = "list" -> value.v \notin {"", " "}
      [] value.kind = "str" -> value.v \notin {"", " "}
      [] OTHER -> TRUE

\* RequestInterpreter._normalize_mrt_data: the filters with a valid value,
\* equals2 renamed to equals, defaults for what the request leaves out
RECURSIVE NormalizeMrtData(_, _, _)
NormalizeMrtData(filters, i, request) ==
    IF i > Len(filters) THEN request
    ELSE LET c == filters[i]
             fn == IF c.fn = "equals2" THEN "equals" ELSE c.fn
             fns == [request EXCEPT !.columnFilterFns = (c.id :> fn) @@ @]
         IN IF IsValidFilterValue(c.value)
            THEN NormalizeMrtData(filters, i + 1,
                    [fns EXCEPT !.columnFilters =
                        Append(@, [id |-> c.id, value |-> c.value])])
            ELSE NormalizeMrtData(filters, i + 1, fns)

\* the (path, descending) pairs handed to add_sorting
SortChoices ==
    {[id |-> <<"status">>, desc |-> FALSE],
     [id |-> <<"customer", "name">>, desc |-> TRUE],
     [id |-> <<"items">>, desc |-> FALSE]}

PageSizes == {3, 10}
GlobalFilterChoices == {"", "PEN"}

\* the operator apply_column_filter looks up, "fuzzy" when there is none
FilterFnOf(request, id) ==
    IF id \in DOMAIN request.columnFilterFns
    THEN request.columnFilterFns[id] ELSE "fuzzy"

\* the step apply_table_request takes after the given one
PhaseAfter(phase, request) ==
    IF phase = "global" /\ Len(request.columnFilters) > 0 THEN "filters"
    ELSE IF phase \in {"global", "filters"} /\ Len(request.sorting) > 0
    THEN "sorting"
    ELSE "count"

InitQB ==
    /\ CmpIdle
    /\ QbIdle
    /\ RecIdle
    /\ SynIdle
    /\ FltIdle
    /\ ParIdle

\* QueryBuilder(model, request_json): the request is what the interpreter
\* makes of the JSON
QbInterpret ==
    /\ qbPc = "build"
    /\ qbReq = DefaultRequest
    /\ \E filters \in SeqsUpTo(JsonFilterChoices, MaxFilters) \ {<<>>} :
          qbReq' = NormalizeMrtData(filters, 1, DefaultRequest)
    /\ UNCHANGED <<qbQuery, qbCount, qbJoins, qbCounter, qbApplied, qbInvalid,
                   qbPc, qbIdx>>
    /\ UNCHANGED cmpVars
    /\ UNCHANGED recVars
    /\ UNCHANGED synVars
    /\ UNCHANGED fltVars
    /\ UNCHANGED parVars

QbAddColumnFilter ==
    /\ qbPc = "build"
    /\ Len(qbReq.columnFilters) < MaxFilters
    /\ \E c \in FilterChoices \cup BlankFilterChoices :
          qbReq' = [qbReq EXCEPT
                      !.columnFilters = Append(@, [id |-> c.id, value |-> c.value]),
                      !.columnFilterFns = (c.id :> c.fn) @@ @]
    /\ UNCHANGED <<qbQuery, qbCount, qbJoins, qbCounter, qbApplied, qbInvalid,
                   qbPc, qbIdx>>
    /\ UNCHANGED cmpVars
    /\ UNCHANGED recVars
    /\ UNCHANGED synVars
    /\ UNCHANGED fltVars
    /\ UNCHANGED parVars

QbSetGlobalFilter ==
    /\ qbPc = "build"
    /\ \E g \in GlobalFilterChoices : qbReq' = [qbReq EXCEPT !.globalFilter = g]
    /\ UNCHANGED <<qbQuery, qbCount, qbJoins, qbCounter, qbApplied, qbInvalid,
                   qbPc, qbIdx>>
    /\ UNCHANGED cmpVars
    /\ UNCHANGED recVars
    /\ UNCHANGED synVars
    /\ UNCHANGED fltVars
    /\ UNCHANGED parVars

QbAddSorting ==
    /\ qbPc = "build"
    /\ Len(qbReq.sorting) < MaxSorts
    /\ \E c \in SortChoices : qbReq' = [qbReq EXCEPT !.sorting = Append(@, c)]
    /\ UNCHANGED <<qbQuery, qbCount, qbJoins, qbCounter, qbApplied, qbInvalid,
                   qbPc, qbIdx>>
    /\ UNCHANGED cmpVars
    /\ UNCHANGED recVars
    /\ UNCHANGED synVars
    /\ UNCHANGED fltVars
    /\ UNCHANGED parVars

QbSetPagination ==
    /\ qbPc = "build"
    /\ \E page_index \in 0..MaxPageIndex, page_size \in PageSizes :
          qbReq' = [qbReq EXCEPT !.pagination = [pageIndex |-> page_index,
                                                 pageSize |-> page_size]]
    /\ UNCHANGED <<qbQuery, qbCount, qbJoins, qbCounter, qbApplied, qbInvalid,
                   qbPc, qbIdx>>
    /\ UNCHANGED cmpVars
    /\ UNCHANGED recVars
    /\ UNCHANGED synVars
    /\ UNCHANGED fltVars
    /\ UNCHANGED parVars

\* apply_table_request, step 1: apply_global_filter
QbApplyGlobalFilter ==
    /\ qbPc = "build"
    /\ qbQuery' = ApplyGlobalFilter(qbQuery, qbReq.globalFilter)
    /\ qbPc' = PhaseAfter("global", qbReq)
    /\ qbIdx' = 1
    /\ UNCHANGED <<qbReq, qbCount, qbJoins, qbCounter, qbApplied, qbInvalid>>
    /\ UNCHANGED cmpVars
    /\ UNCHANGED recVars
    /\ UNCHANGED synVars
    /\ UNCHANGED fltVars
    /\ UNCHANGED parVars

\* apply_table_request, step 2: one round of the loop of apply_column_filter
QbApplyColumnFilter ==
    /\ qbPc = "filters"
    /\ qbIdx <= Len(qbReq.columnFilters)
    /\ LET column_filter == qbReq.columnFilters[qbIdx]
           r == ApplyFilter(column_filter.id, FilterFnOf(qbReq, column_filter.id),
                            column_filter.value, qbQuery, qbJoins, qbCounter,
                            qbApplied, qbInvalid)
       IN /\ qbQuery' = r.query
          /\ qbJoins' = r.joins
          /\ qbCounter' = r.counter
          /\ qbApplied' = r.applied
          /\ qbInvalid' = r.invalid
          /\ IF r.raised # "none"
             THEN qbPc' = "aborted" /\ qbIdx' = qbIdx
             ELSE IF qbIdx < Len(qbReq.columnFilters)
             THEN qbPc' = "filters" /\ qbIdx' = qbIdx + 1
             ELSE qbPc' = PhaseAfter("filters", qbReq) /\ qbIdx' = 1
    /\ UNCHANGED <<qbReq, qbCount>>
    /\ UNCHANGED cmpVars
    /\ UNCHANGED recVars
    /\ UNCHANGED synVars
    /\ UNCHANGED fltVars
    /\ UNCHANGED parVars

\* apply_table_request, step 3: one round of the loop of apply_sorting
QbApplySorting ==
    /\ qbPc = "sorting"
    /\ qbIdx <= Len(qbReq.sorting)
    /\ LET sort == qbReq.sorting[qbIdx]
           r == ApplySortingOne(sort.id, sort.desc, qbQuery, qbJoins, qbCounter,
                                qbApplied, qbInvalid)
       IN /\ qbQuery' = r.query
          /\ qbJoins' = r.joins
          /\ qbCounter' = r.counter
          /\ qbApplied' = r.applied
          /\ qbInvalid' = r.invalid
    /\ IF qbIdx < Len(qbReq.sorting)
       THEN qbPc' = "sorting" /\ qbIdx' = qbIdx + 1
       ELSE qbPc' = "count" /\ qbIdx' = 1
    /\ UNCHANGED <<qbReq, qbCount>>
    /\ UNCHANGED cmpVars
    /\ UNCHANGED recVars
    /\ UNCHANGED synVars
    /\ UNCHANGED fltVars
    /\ UNCHANGED parVars

\* apply_table_request, step 4: self.row_count_query = self.get_row_count_query()
QbDeriveRowCount ==
    /\ qbPc = "count"
    /\ qbCount' = [set |-> TRUE, q |-> GetRowCountQuery(qbQuery)]
    /\ qbPc' = "paginate"
    /\ UNCHANGED <<qbReq, qbQuery, qbJoins, qbCounter, qbApplied, qbInvalid, qbIdx>>
    /\ UNCHANGED cmpVars
    /\ UNCHANGED recVars
    /\ UNCHANGED synVars
    /\ UNCHANGED fltVars
    /\ UNCHANGED parVars

\* apply_table_request, step 5: apply_pagination
QbApplyPagination ==
    /\ qbPc = "paginate"
    /\ qbQuery' = ApplyPagination(qbQuery, qbReq.pagination.pageIndex,
                                  qbReq.pagination.pageSize)
    /\ qbPc' = "done"
    /\ UNCHANGED <<qbReq, qbCount, qbJoins, qbCounter, qbApplied, qbInvalid, qbIdx>>
    /\ UNCHANGED cmpVars
    /\ UNCHANGED recVars
    /\ UNCHANGED synVars
    /\ UNCHANGED fltVars
    /\ UNCHANGED parVars

NextQB ==
    \/ QbInterpret
    \/ QbAddColumnFilter
    \/ QbSetGlobalFilter
    \/ QbAddSorting
    \/ QbSetPagination
    \/ QbApplyGlobalFilter
    \/ QbApplyColumnFilter
    \/ QbApplySorting
    \/ QbDeriveRowCount
    \/ QbApplyPagination

SpecQB == InitQB /\ [][NextQB]_vars

(***************************************************************************)
(* RelationshipUpdater: state machine                                      *)
(***************************************************************************)
\* a parent loaded with up to MaxChildren children, handled by a handler
\* whose configuration of the relation is fixed; without a soft-delete column
\* the reconciliation never reads the flag, so such a parent is loaded with
\* unflagged children only
InitRec ==
    /\ CmpIdle
    /\ QbIdle
    /\ SynIdle
    /\ FltIdle
    /\ ParIdle
    /\ recCfg \in RecConfigs
    /\ \E loaded \in SeqsUpTo(ChildShapes, MaxChildren) :
          /\ recCfg.soft_delete_column = "" =>
                \A i \in 1..Len(loaded) : ~loaded[i].deleted
          /\ recObjs = [i \in 1..Len(loaded) |->
                           [idx |-> i, id |-> loaded[i].id,
                            title |-> loaded[i].title,
                            deleted |-> loaded[i].deleted,
                            updated_at |-> 0, updated_by |-> ""]]
          /\ recChildren = [i \in 1..Len(loaded) |-> i]
    /\ recSessionDeleted = {}
    /\ recCalls = 0
    /\ recLast = NoCall
    /\ recEverRemoved = {}

\* update_one_to_many_relationship(instance, key, new_data, ...): the whole
\* call; the buckets of the comparator are iterated in any order
RecReconcile ==
    /\ recCalls < MaxCalls
    /\ \E new_data \in Payloads :
          LET c == ReconcileComparator(recChildren, recObjs, new_data, recCfg)
              seen == [NoCall EXCEPT
                         !.before = recChildren, !.objs = recObjs,
                         !.payload = new_data,
                         !.soft = (recCfg.soft_delete_column # ""),
                         !.already = Range(AlreadyDeletedItems(recChildren, recObjs,
                                               recCfg.soft_delete_column))]
          IN IF c.raised # "none"
             THEN /\ recLast' = [seen EXCEPT !.status = c.raised]
                  /\ UNCHANGED <<recObjs, recChildren, recSessionDeleted,
                                 recEverRemoved>>
             ELSE LET result == c.obj["_result"]
                      removed == ClassifiedRemoved(recChildren, recObjs, recCfg, result)
                  IN \E orders \in [unchanged : Orderings(result.unchanged),
                                    modified : Orderings(result.modified),
                                    added : Orderings(result.added),
                                    removed : Orderings(result.removed)] :
                        LET st == ReconcileApply(recChildren, recObjs, recCfg, result,
                                                 orders, recSessionDeleted,
                                                 recCalls + 1)
                        IN /\ recObjs' = st.objs
                           /\ recChildren' = st.final
                           /\ recSessionDeleted' = st.session_deleted
                           /\ recEverRemoved' = recEverRemoved \cup removed
                           /\ recLast' = [seen EXCEPT !.status = "ok",
                                                      !.removed = removed,
                                                      !.matched = st.matched,
                                                      !.created = st.created]
    /\ recCalls' = recCalls + 1
    /\ UNCHANGED recCfg
    /\ UNCHANGED cmpVars
    /\ UNCHANGED qbVars
    /\ UNCHANGED synVars
    /\ UNCHANGED fltVars
    /\ UNCHANGED parVars

NextRec == RecReconcile

SpecRec == InitRec /\ [][NextRec]_vars

(***************************************************************************)
(* NestedRelationshipHandler: state machine                                *)
(***************************************************************************)
PyAbsent == [kind |-> "absent", items |-> <<>>, d |-> <<>>]

\* an Author payload: `name` and whichever relation keys are present
AuthorPayload(articles, publisher, tags, profile) ==
    LET all == [articles |-> articles, publisher |-> publisher, tags |-> tags,
                profile |-> profile]
        keys == {k \in DOMAIN all : all[k].kind # "absent"}
    IN [k \in {"name"} \cup keys |-> IF k = "name" THEN "bob" ELSE all[k]]

\* an article payload that nests a reply and names its author
NestedArticle ==
    [id |-> 2, title |-> "B",
     replies |-> PyList(<<PyDict([id |-> 3, title |-> "A"])>>),
     author |-> PyDict([name |-> "eve"])]

\* every combination of the four relation keys being present with
\* well-formed data, plus a primitive where a record is expected and an
\* explicit None
AuthorPayloads ==
    {AuthorPayload(articles, publisher, tags, profile) :
        articles \in {PyAbsent, PyList(<<PyDict(NestedArticle)>>)},
        publisher \in {PyAbsent, PyDict([name |-> "eve"])},
        tags \in {PyAbsent, PyList(<<PyDict([label |-> "t"])>>)},
        profile \in {PyAbsent, PyDict([bio |-> "b"])}}
      \cup {AuthorPayload(PyList(<<PyPrimitive>>), PyAbsent, PyAbsent, PyAbsent),
            AuthorPayload(PyAbsent, PyAbsent, PyAbsent, PyNone)}

\* an Article payload whose replies nest n levels deep
RECURSIVE ReplyChain(_)
ReplyChain(n) ==
    IF n = 0 THEN [id |-> 1, title |-> "A"]
    ELSE [id |-> 1, title |-> "A",
          replies |-> PyList(<<PyDict(ReplyChain(n - 1))>>)]

\* the nesting depths of the Article payloads: flat, one reply, and one
\* level more than the default depth limit
ChainDepths == {0, 1, DefaultMaxDepth + 1}

\* model and data handed to create_with_nested
HandlerInputs ==
    {<<"Author", data>> : data \in AuthorPayloads}
        \cup {<<"Article", ReplyChain(n)>> : n \in ChainDepths}

\* model and data handed to process_nested_data
ProcessInputs ==
    {<<"Author", AuthorPayload(PyList(<<PyDict(NestedArticle)>>),
                               PyDict([name |-> "eve"]),
                               PyList(<<PyDict([label |-> "t"])>>),
                               PyDict([bio |-> "b"]))>>,
     <<"Author", AuthorPayload(PyList(<<PyPrimitive>>), PyAbsent, PyAbsent,
                               PyAbsent)>>}
        \cup {<<"Article", ReplyChain(n)>> : n \in ChainDepths \ {0}}

\* the max_depth arguments process_nested_data is called with
MaxDepths == {1, 2, DefaultMaxDepth}

MaxSynChildren == 2  \* most articles the author is loaded with
MaxSynCalls == 2     \* most handler calls on the author

\* an Author with a Publisher (many-to-one), maybe a Profile (one-to-one) and
\* up to MaxSynChildren articles with distinct keys; the handler keys the
\* articles on `id`
InitSyn ==
    /\ CmpIdle
    /\ QbIdle
    /\ RecIdle
    /\ FltIdle
    /\ ParIdle
    /\ synCfg \in [soft_delete_column : {"", "deleted"}, key_fields : {{"id"}},
                   exclude_fields : {{}}]
    /\ synInstance = [name |-> "ann", deleted |-> FALSE, updated_at |-> 0,
                      updated_by |-> ""]
    /\ \E has_profile \in BOOLEAN :
          synRelated = [publisher |-> [name |-> "pub", deleted |-> FALSE,
                                       updated_at |-> 0, updated_by |-> ""],
                        profile |-> [present |-> has_profile, bio |-> "a",
                                     deleted |-> FALSE, updated_at |-> 0,
                                     updated_by |-> ""]]
    /\ \E n \in 0..MaxSynChildren, flags \in [1..MaxSynChildren -> BOOLEAN] :
          /\ \A i \in 1..MaxSynChildren :
                flags[i] => i <= n /\ synCfg.soft_delete_column # ""
          /\ synObjs = [i \in 1..n |->
                           [idx |-> i, id |-> i, title |-> "A",
                            deleted |-> flags[i],
                            updated_at |-> 0, updated_by |-> ""]]
          /\ synChildren = [i \in 1..n |-> i]
    /\ synSession = [added |-> {}, deleted |-> {}]
    /\ synCalls = 0
    /\ synLast = NoSynCall

\* handler.process_nested_data(data, model, max_depth=...)
SynProcess ==
    /\ synCalls < MaxSynCalls
    /\ \E input \in ProcessInputs, max_depth \in MaxDepths :
          LET p == ProcessNestedData(input[2], input[1], "", {}, 0, max_depth)
          IN synLast' = [NoSynCall EXCEPT
                           !.op = "process", !.model = input[1],
                           !.payload = input[2], !.max_depth = max_depth,
                           !.status = IF p.raised # "" THEN p.raised ELSE "ok",
                           !.deepest = p.deepest, !.truncated = p.truncated]
    /\ synCalls' = synCalls + 1
    /\ UNCHANGED <<synCfg, synInstance, synRelated, synObjs, synChildren,
                   synSession>>
    /\ UNCHANGED cmpVars
    /\ UNCHANGED qbVars
    /\ UNCHANGED recVars
    /\ UNCHANGED fltVars
    /\ UNCHANGED parVars

\* create_with_nested(model, data): the whole call
SynCreate ==
    /\ synCalls < MaxSynCalls
    /\ \E input \in HandlerInputs :
          LET r == CreateWithNested(input[1], input[2], <<>>)
              p == ProcessNestedData(input[2], input[1], "", {}, 0,
                                     DefaultMaxDepth)
          IN /\ synLast' = [NoSynCall EXCEPT
                              !.op = "create", !.model = input[1],
                              !.payload = input[2],
                              !.max_depth = DefaultMaxDepth,
                              !.status = IF r.raised # "" THEN r.raised ELSE "ok",
                              !.deepest = p.deepest, !.truncated = p.truncated,
                              !.created = r.created]
             /\ synSession' =
                   [synSession EXCEPT
                      !.added = @ \cup {[call |-> synCalls + 1, model |-> c.model,
                                         path |-> c.path] : c \in r.created}]
    /\ synCalls' = synCalls + 1
    /\ UNCHANGED <<synCfg, synInstance, synRelated, synObjs, synChildren>>
    /\ UNCHANGED cmpVars
    /\ UNCHANGED qbVars
    /\ UNCHANGED recVars
    /\ UNCHANGED fltVars
    /\ UNCHANGED parVars

\* update_one_to_many_relationship called by update_with_nested on the
\* `articles` relation, given the comparator `c` it builds; `outcome` is how
\* the loop over the other nested keys ends
SynReconcile(c, seen, updated, outcome) ==
    LET now == synCalls + 1
    IN IF c.raised # "none"
       THEN /\ synInstance' = updated
            /\ synLast' = [seen EXCEPT !.status = c.raised]
            /\ UNCHANGED <<synObjs, synChildren, synSession>>
       ELSE \E orders \in [unchanged : Orderings(c.obj["_result"].unchanged),
                           modified : Orderings(c.obj["_result"].modified),
                           added : Orderings(c.obj["_result"].added),
                           removed : Orderings(c.obj["_result"].removed)] :
               LET st == ReconcileApply(synChildren, synObjs, synCfg,
                                        c.obj["_result"], orders,
                                        synSession.deleted, now)
                   created == {[model |-> "Article",
                                path |-> <<[key |-> "articles", n |-> i]>>] :
                                   i \in st.created}
               IN /\ synObjs' = st.objs
                  /\ synChildren' = st.final
                  /\ synSession' =
                        [added |-> synSession.added \cup
                            {[call |-> now, model |-> x.model, path |-> x.path] :
                                x \in created},
                         deleted |-> st.session_deleted]
                  /\ synInstance' = updated
                  /\ synLast' = [seen EXCEPT !.status = outcome,
                                             !.created = created]

\* update_with_nested once the data is processed into `p`
SynUpdateProcessed(data, p, profile_first) ==
    LET now == synCalls + 1
        relationships == SynRelationships("Author")
        nested == IF p.raised # "" THEN {}
                  ELSE {key \in DOMAIN p.out : key \in DOMAIN relationships}
        met == {key \in nested : ~IsManyToOne(relationships[key].direction)}
        one_to_one == {key \in met : relationships[key].direction = "ONETOONE"}
        seen == [NoSynCall EXCEPT
                   !.op = "update", !.model = "Author", !.payload = data,
                   !.max_depth = DefaultMaxDepth, !.deepest = p.deepest,
                   !.truncated = p.truncated]
        updated == [synInstance EXCEPT !.name = p.out.name,
                                       !.updated_at = now,
                                       !.updated_by = "user"]
        outcome == IF one_to_one # {} THEN "NotImplementedError" ELSE "ok"
    IN IF p.raised # ""
       THEN /\ synLast' = [seen EXCEPT !.status = p.raised]
            /\ UNCHANGED <<synInstance, synObjs, synChildren, synSession>>
       ELSE IF "articles" \in met /\ ~(profile_first /\ one_to_one # {})
       THEN SynReconcile(
                ReconcileComparator(synChildren, synObjs,
                    [n \in 1..Len(p.out.articles.items) |->
                        p.out.articles.items[n].d], synCfg),
                seen, updated, outcome)
       ELSE /\ synInstance' = updated
            /\ synLast' = [seen EXCEPT !.status = outcome]
            /\ UNCHANGED <<synObjs, synChildren, synSession>>

\* update_with_nested(instance, data, request_schema): the whole call; the
\* nested keys are met in the order of the payload
SynUpdate ==
    /\ synCalls < MaxSynCalls
    /\ \E data \in AuthorPayloads, profile_first \in BOOLEAN :
          /\ profile_first => {"articles", "profile"} \subseteq DOMAIN data
          /\ SynUpdateProcessed(data,
                 ProcessNestedData(data, "Author", "", {}, 0, DefaultMaxDepth),
                 profile_first)
    /\ synCalls' = synCalls + 1
    /\ UNCHANGED <<synCfg, synRelated>>
    /\ UNCHANGED cmpVars
    /\ UNCHANGED qbVars
    /\ UNCHANGED recVars
    /\ UNCHANGED fltVars
    /\ UNCHANGED parVars

\* the loop of delete_with_nested / restore_with_nested over the relations
\* of the instance, which sets the delete column of the instance to `flag`:
\* many-to-one skipped, one-to-many items flagged, one-to-one raises; the
\* relations are met in the order the mapper lists them
SynFlagNested(op, flag, deleted_column) ==
    \E profile_first \in {b \in BOOLEAN : b => synRelated.profile.present} :
       LET now == synCalls + 1
           relationships == SynRelationships("Author")
           related == [articles |-> TRUE, publisher |-> TRUE, tags |-> TRUE,
                       profile |-> synRelated.profile.present]
           met == {key \in DOMAIN relationships :
                      /\ related[key]
                      /\ ~IsManyToOne(relationships[key].direction)}
           one_to_one == {key \in met :
                             relationships[key].direction = "ONETOONE"}
           rel_deleted_column ==
               IF synCfg.soft_delete_column # "" THEN synCfg.soft_delete_column
               ELSE deleted_column
           flagged == IF flag
                      THEN AddSoftDeleteMetadata(
                               [synInstance EXCEPT ![deleted_column] = TRUE],
                               deleted_column, now)
                      ELSE RestoreSoftDeletedMetadata(
                               [synInstance EXCEPT ![deleted_column] = FALSE],
                               deleted_column, now)
       IN /\ synInstance' = flagged
          /\ synObjs' = IF profile_first /\ one_to_one # {} THEN synObjs
                        ELSE FlagRelatedItems(synObjs, synChildren,
                                              rel_deleted_column, flag, now)
          /\ synLast' = [NoSynCall EXCEPT
                           !.op = op, !.model = "Author", !.soft = TRUE,
                           !.flags_before = [i \in 1..Len(synObjs) |->
                                                synObjs[i].deleted],
                           !.status = IF one_to_one # {}
                                      THEN "NotImplementedError" ELSE "ok"]
          /\ UNCHANGED <<synChildren, synSession>>

\* delete_with_nested(instance, "deleted", is_soft_delete): the whole call
SynDelete ==
    /\ synCalls < MaxSynCalls
    /\ \E is_soft_delete \in BOOLEAN :
          IF is_soft_delete
          THEN SynFlagNested("delete", TRUE, "deleted")
          ELSE /\ synSession' = [synSession EXCEPT !.deleted = @ \cup {0}]
               /\ synLast' = [NoSynCall EXCEPT !.op = "delete",
                                !.model = "Author", !.status = "ok"]
               /\ UNCHANGED <<synInstance, synObjs, synChildren>>
    /\ synCalls' = synCalls + 1
    /\ UNCHANGED <<synCfg, synRelated>>
    /\ UNCHANGED cmpVars
    /\ UNCHANGED qbVars
    /\ UNCHANGED recVars
    /\ UNCHANGED fltVars
    /\ UNCHANGED parVars

\* restore_with_nested(instance, "deleted", is_soft_delete): the whole call
SynRestore ==
    /\ synCalls < MaxSynCalls
    /\ \E is_soft_delete \in BOOLEAN :
          IF is_soft_delete
          THEN SynFlagNested("restore", FALSE, "deleted")
          ELSE /\ synLast' = [NoSynCall EXCEPT !.op = "restore",
                                !.model = "Author", !.status = "HTTPException"]
               /\ UNCHANGED <<synInstance, synObjs, synChildren, synSession>>
    /\ synCalls' = synCalls + 1
    /\ UNCHANGED <<synCfg, synRelated>>
    /\ UNCHANGED cmpVars
    /\ UNCHANGED qbVars
    /\ UNCHANGED recVars
    /\ UNCHANGED fltVars
    /\ UNCHANGED parVars

NextSyn == SynProcess \/ SynCreate \/ SynUpdate \/ SynDelete \/ SynRestore

SpecSyn == InitSyn /\ [][NextSyn]_vars

(***************************************************************************)
(* Filter compilers: state machine                                         *)
(***************************************************************************)
MaxSubConditions == 3   \* most sub-conditions of one relation filter

\* the sub-conditions of the relation filters: two on columns of the related
\* rows, one through Item.product, one through Item.order back to the parent
SubConditions ==
    {[column |-> "sku", operator |-> "contains", value |-> FStr("a")],
     [column |-> "qty", operator |-> "greaterThan", value |-> FNum(1)],
     [column |-> "product.name", operator |-> "equals", value |-> FStr("q")],
     [column |-> "order.status", operator |-> "equals", value |-> FStr("OPEN")]}

\* the bounds of the between filters: None, empty, blank, or a value
NumberBounds == {FNone, FStr(""), FStr(" "), FNum(1), FNum(3)}
DateBounds == {FNone, FStr(""), FStr("2024-01-01"), FStr("2024-01-03")}

\* the numbers (the days) the filtered column has in the rows
ColumnNumbers == 0..4

NoParent == [status |-> "", items |-> {}]

\* a column filter on a relation, a number column or a date column
InitFlt ==
    /\ CmpIdle
    /\ QbIdle
    /\ RecIdle
    /\ SynIdle
    /\ ParIdle
    /\ fltOut = FUnset
    /\ \/ \E operator \in {"hasAny", "hasAll"}, parent \in Parents,
             values \in SeqsUpTo(SubConditions, MaxSubConditions) \ {<<>>} :
             fltIn = [filter |-> "relation", operator |-> operator,
                      value |-> values, parent |-> parent]
       \/ \E operator \in {"hasChild", "hasNotChild"}, parent \in Parents :
             fltIn = [filter |-> "relation", operator |-> operator,
                      value |-> <<>>, parent |-> parent]
       \/ \E operator \in {"between", "betweenInclusive", "greaterThan"},
             value \in SeqsUpTo(NumberBounds, 2) \ {<<>>} :
             fltIn = [filter |-> "number", operator |-> operator,
                      value |-> value, parent |-> NoParent]
       \/ \E operator \in {"between", "betweenInclusive", "greaterThan"},
             value \in SeqsUpTo(DateBounds, 2) \ {<<>>} :
             fltIn = [filter |-> "date", operator |-> operator,
                      value |-> value, parent |-> NoParent]

\* RelationFilter.apply(column, operator, value, query)
FltApplyRelation ==
    /\ fltOut = FUnset
    /\ fltIn.filter = "relation"
    /\ fltOut' = RelationFilterCompile(fltIn.operator, fltIn.value)
    /\ UNCHANGED fltIn
    /\ UNCHANGED cmpVars
    /\ UNCHANGED qbVars
    /\ UNCHANGED recVars
    /\ UNCHANGED synVars
    /\ UNCHANGED parVars

\* NumberFilter.apply(column, operator, value)
FltApplyNumber ==
    /\ fltOut = FUnset
    /\ fltIn.filter = "number"
    /\ fltOut' = NumberFilterCompile(fltIn.operator, fltIn.value)
    /\ UNCHANGED fltIn
    /\ UNCHANGED cmpVars
    /\ UNCHANGED qbVars
    /\ UNCHANGED recVars
    /\ UNCHANGED synVars
    /\ UNCHANGED parVars

\* DateFilter.apply(column, operator, value)
FltApplyDate ==
    /\ fltOut = FUnset
    /\ fltIn.filter = "date"
    /\ fltOut' = DateFilterCompile(fltIn.operator, fltIn.value)
    /\ UNCHANGED fltIn
    /\ UNCHANGED cmpVars
    /\ UNCHANGED qbVars
    /\ UNCHANGED recVars
    /\ UNCHANGED synVars
    /\ UNCHANGED parVars

NextFlt == FltApplyRelation \/ FltApplyNumber \/ FltApplyDate

SpecFlt == InitFlt /\ [][NextFlt]_vars


(***************************************************************************)
(* Two reconciliations of different parents: state machine                 *)
(***************************************************************************)
\* variant in which the calls append to one list
FinalItemsShared(p) == 1

\* final_items = []: every call has its own list
FinalItems(p) == p

\* the loop that comes next: the first bucket that still has an item, in the
\* order unchanged, modified, added, removed; then the assignment
ParPhase(todo) ==
    IF todo.unchanged # {} THEN "unchanged"
    ELSE IF todo.modified # {} THEN "modified"
    ELSE IF todo.added # {} THEN "added"
    ELSE IF todo.removed # {} THEN "removed"
    ELSE "assign"

\* what one round of a loop works on: the shared instances and session, the
\* call's own final_items
ParState(p) ==
    [objs |-> parObjs, final |-> parFinal[FinalItems(p)],
     session_deleted |-> parSessionDeleted,
     matched |-> parWork[p].matched, created |-> parWork[p].created]

\* one round of a loop is done: its effects, and the item leaves the bucket
ParCommit(p, st, bucket, x) ==
    /\ parObjs' = st.objs
    /\ parSessionDeleted' = st.session_deleted
    /\ parFinal' = [parFinal EXCEPT ![FinalItems(p)] = st.final]
    /\ parWork' = [parWork EXCEPT ![p].todo[bucket] = @ \ {x},
                                  ![p].taken[bucket] = Append(@, x),
                                  ![p].matched = st.matched,
                                  ![p].created = st.created]
    /\ parPc' = [parPc EXCEPT
                   ![p] = ParPhase([parWork[p].todo EXCEPT ![bucket] = @ \ {x}])]
    /\ UNCHANGED <<parCfg, parChildren, parBefore>>

InitPar ==
    /\ CmpIdle
    /\ QbIdle
    /\ RecIdle
    /\ SynIdle
    /\ FltIdle
    /\ parCfg \in [soft_delete_column : {"", "deleted"}, key_fields : {{"id"}},
                   exclude_fields : {{}}]
    /\ \E first, second \in SeqsUpTo(ParChildShapes, MaxParChildren) :
          LET loaded == first \o second
          IN /\ parCfg.soft_delete_column = "" =>
                   \A i \in 1..Len(loaded) : ~loaded[i].deleted
             /\ parObjs = [i \in 1..Len(loaded) |->
                              [idx |-> i, id |-> loaded[i].id,
                               title |-> loaded[i].title,
                               deleted |-> loaded[i].deleted,
                               updated_at |-> 0, updated_by |-> ""]]
             /\ parChildren = <<[i \in 1..Len(first) |-> i],
                                [i \in 1..Len(second) |-> Len(first) + i]>>
    /\ parSessionDeleted = {}
    /\ parPc = <<"idle", "idle">>
    /\ parWork = <<ParNoWork, ParNoWork>>
    /\ parFinal = <<<<>>, <<>>>>
    /\ parBefore = [objs |-> parObjs, children |-> parChildren]

\* update_one_to_many_relationship up to the comparison: the existing items
\* are read, the already deleted ones go to final_items, the payload is
\* validated and the comparator is built
ParBegin(p) ==
    /\ parPc[p] = "idle"
    /\ \E new_data \in ParPayloads :
          LET c == ReconcileComparator(parChildren[p], parObjs, new_data, parCfg)
          IN IF c.raised # "none"
             THEN /\ parWork' = [parWork EXCEPT ![p].status = c.raised,
                                                ![p].payload = new_data]
                  /\ parPc' = [parPc EXCEPT ![p] = "raised"]
                  /\ UNCHANGED parFinal
             ELSE /\ parWork' = [parWork EXCEPT
                        ![p].status = "running",
                        ![p].payload = new_data,
                        ![p].comparison_items =
                            ComparisonItems(parChildren[p], parObjs,
                                            parCfg.soft_delete_column),
                        ![p].todo = c.obj["_result"]]
                  /\ parFinal' = [parFinal EXCEPT ![FinalItems(p)] =
                        AlreadyDeletedItems(parChildren[p], parObjs,
                                            parCfg.soft_delete_column)]
                  /\ parPc' = [parPc EXCEPT ![p] = ParPhase(c.obj["_result"])]
    /\ UNCHANGED <<parCfg, parObjs, parChildren, parSessionDeleted, parBefore>>
    /\ UNCHANGED cmpVars
    /\ UNCHANGED qbVars
    /\ UNCHANGED recVars
    /\ UNCHANGED synVars
    /\ UNCHANGED fltVars

\* one round of the loop over result.unchanged
ParKeep(p) ==
    /\ parPc[p] = "unchanged"
    /\ \E x \in parWork[p].todo.unchanged :
          ParCommit(p, KeepUnchanged(<<x>>, ParState(p),
                                     parWork[p].comparison_items,
                                     parCfg.key_fields),
                    "unchanged", x)
    /\ UNCHANGED cmpVars
    /\ UNCHANGED qbVars
    /\ UNCHANGED recVars
    /\ UNCHANGED synVars
    /\ UNCHANGED fltVars

\* one round of the loop over result.modified; the instance is stamped by
\* the call
ParUpdate(p) ==
    /\ parPc[p] = "modified"
    /\ \E x \in parWork[p].todo.modified :
          ParCommit(p, UpdateModified(<<x>>, ParState(p),
                                      parWork[p].comparison_items,
                                      parCfg.key_fields, parCfg.exclude_fields, p),
                    "modified", x)
    /\ UNCHANGED cmpVars
    /\ UNCHANGED qbVars
    /\ UNCHANGED recVars
    /\ UNCHANGED synVars
    /\ UNCHANGED fltVars

\* one round of the loop over result.added
ParCreate(p) ==
    /\ parPc[p] = "added"
    /\ \E x \in parWork[p].todo.added :
          ParCommit(p, CreateAdded(<<x>>, ParState(p)), "added", x)
    /\ UNCHANGED cmpVars
    /\ UNCHANGED qbVars
    /\ UNCHANGED recVars
    /\ UNCHANGED synVars
    /\ UNCHANGED fltVars

\* one round of the loop over result.removed
ParRemove(p) ==
    /\ parPc[p] = "removed"
    /\ \E x \in parWork[p].todo.removed :
          ParCommit(p, DeleteRemoved(<<x>>, ParState(p),
                                     parWork[p].comparison_items,
                                     parCfg.key_fields,
                                     parCfg.soft_delete_column, p),
                    "removed", x)
    /\ UNCHANGED cmpVars
    /\ UNCHANGED qbVars
    /\ UNCHANGED recVars
    /\ UNCHANGED synVars
    /\ UNCHANGED fltVars

\* setattr(instance, relationship_key, final_items)
ParAssign(p) ==
    /\ parPc[p] = "assign"
    /\ parChildren' = [parChildren EXCEPT ![p] = parFinal[FinalItems(p)]]
    /\ parWork' = [parWork EXCEPT ![p].status = "ok"]
    /\ parPc' = [parPc EXCEPT ![p] = "done"]
    /\ UNCHANGED <<parCfg, parObjs, parSessionDeleted, parFinal, parBefore>>
    /\ UNCHANGED cmpVars
    /\ UNCHANGED qbVars
    /\ UNCHANGED recVars
    /\ UNCHANGED synVars
    /\ UNCHANGED fltVars

NextPar ==
    \/ \E p \in Parents2 : ParBegin(p)
    \/ \E p \in Parents2 : ParKeep(p)
    \/ \E p \in Parents2 : ParUpdate(p)
    \/ \E p \in Parents2 : ParCreate(p)
    \/ \E p \in Parents2 : ParRemove(p)
    \/ \E p \in Parents2 : ParAssign(p)

SpecPar == InitPar /\ [][NextPar]_vars

(***************************************************************************)
(* ModelComparator: properties                                             *)
(***************************************************************************)
\* the key the comparator works with: key_fields, or every non-excluded field
ClaimKeyFields ==
    IF cmpArgs.key_fields = {} THEN Fields \ cmpArgs.exclude_fields
    ELSE cmpArgs.key_fields

ComparedFields == Fields \ cmpArgs.exclude_fields

KeyOn(item, fs) == [f \in fs |-> item[f]]

ListItems(l) == {l[i] : i \in 1..Len(l)}

UniqueKeysIn(l) ==
    \A i, j \in 1..Len(l) :
        i # j => KeyOn(l[i], ClaimKeyFields) # KeyOn(l[j], ClaimKeyFields)

DuplicateKeyIn(l) ==
    \E i, j \in 1..Len(l) :
        i # j /\ KeyOn(l[i], ClaimKeyFields) = KeyOn(l[j], ClaimKeyFields)

DifferingFields(o, n) == {f \in ComparedFields : o[f] # n[f]}

CmpResult == cmpObj["_result"]

\* C1: with unique keys on both sides, added = the new records whose key no
\* old record has, removed = the old records whose key no new record has, and
\* a key on both sides gives one modified entry listing exactly the differing
\* non-excluded fields with their old and new value, or else one unchanged
\* entry holding the old record.
C1_Classification ==
    (/\ cmpPhase = "ready"
     /\ ClaimKeyFields \subseteq Fields
     /\ UniqueKeysIn(cmpArgs.old_list)
     /\ UniqueKeysIn(cmpArgs.new_list))
    =>
    LET old == ListItems(cmpArgs.old_list)
        new == ListItems(cmpArgs.new_list)
        K == ClaimKeyFields
        pairs == {p \in old \X new : KeyOn(p[1], K) = KeyOn(p[2], K)}
        changed == {p \in pairs : DifferingFields(p[1], p[2]) # {}}
        same == pairs \ changed
    IN /\ CmpResult.added
            = {n \in new : \A o \in old : KeyOn(o, K) # KeyOn(n, K)}
       /\ CmpResult.removed
            = {o \in old : \A n \in new : KeyOn(o, K) # KeyOn(n, K)}
       /\ CmpResult.unchanged = {p[1] : p \in same}
       /\ Cardinality(CmpResult.modified) = Cardinality(changed)
       /\ \A p \in changed :
             \E m \in CmpResult.modified :
                /\ m.key = KeyOn(p[1], K)
                /\ m.old_item = p[1]
                /\ m.new_item = p[2]
                /\ DOMAIN m.changed_fields = DifferingFields(p[1], p[2])
                /\ \A f \in DOMAIN m.changed_fields :
                      m.changed_fields[f] = [old |-> p[1][f], new |-> p[2][f]]

\* Scenario C: old=[{id:1,title:"A"}], new=[{id:1,title:"B"}], keyFields={"id"}
C1_Witness ==
    /\ cmpPhase = "ready"
    /\ cmpArgs.old_list = <<[cls |-> "User", id |-> 1, title |-> "A"]>>
    /\ cmpArgs.new_list = <<[cls |-> "User", id |-> 1, title |-> "B"]>>
    /\ cmpArgs.key_fields = {"id"}
    /\ cmpArgs.exclude_fields = {}
    /\ CmpResult.modified
         = {[key |-> [f \in {"id"} |-> 1],
             old_item |-> [cls |-> "User", id |-> 1, title |-> "A"],
             new_item |-> [cls |-> "User", id |-> 1, title |-> "B"],
             changed_fields |-> [f \in {"title"} |-> [old |-> "A", new |-> "B"]]]}
    /\ CmpResult.added = {} /\ CmpResult.removed = {} /\ CmpResult.unchanged = {}

\* C2: a list holding two records with the same key tuple makes the
\* constructor raise ModelComparisonError, and no result is produced.
C2_DuplicateKeyRaises ==
    (/\ cmpLastOp # "none"
     /\ ClaimKeyFields \subseteq Fields
     /\ (DuplicateKeyIn(cmpArgs.old_list) \/ DuplicateKeyIn(cmpArgs.new_list)))
    =>
    (/\ cmpPhase = "failed"
     /\ cmpRaised = "ModelComparisonError"
     /\ "_result" \notin DOMAIN cmpObj)

\* C3: lists holding equal records under the same keys give unchanged with as
\* many entries as the old list, nothing added, removed or modified.
EqualUnderSameKeys ==
    LET old == ListItems(cmpArgs.old_list)
        new == ListItems(cmpArgs.new_list)
        K == ClaimKeyFields
        matches(a, b) == /\ KeyOn(a, K) = KeyOn(b, K)
                         /\ DifferingFields(a, b) = {}
    IN /\ \A o \in old : \E n \in new : matches(o, n)
       /\ \A n \in new : \E o \in old : matches(o, n)

C3_EqualListsUnchanged ==
    (/\ cmpPhase = "ready"
     /\ ClaimKeyFields \subseteq Fields
     /\ EqualUnderSameKeys)
    =>
    (/\ Cardinality(CmpResult.unchanged) = Len(cmpArgs.old_list)
     /\ CmpResult.added = {}
     /\ CmpResult.removed = {}
     /\ CmpResult.modified = {}
     /\ ~PropertyView(cmpObj).has_changes)

\* C4: once constructed, every attempt to set an attribute raises and leaves
\* the object as it was, and the buckets stay those computed at construction.
C4_Immutable ==
    /\ [](cmpPhase = "ready" =>
            /\ CmpResult = PerformComparison(cmpArgs.old_list, cmpArgs.new_list,
                                             cmpArgs.key_fields,
                                             cmpArgs.exclude_fields)
            /\ (cmpLastOp = "read" =>
                   /\ cmpView.added = CmpResult.added
                   /\ cmpView.removed = CmpResult.removed
                   /\ cmpView.modified = CmpResult.modified
                   /\ cmpView.unchanged = CmpResult.unchanged))
    /\ [][cmpPhase = "ready" =>
            /\ cmpObj'["_result"] = cmpObj["_result"]
            /\ (cmpLastOp' = "setattr" =>
                   cmpRaised' = "AttributeError" /\ cmpObj' = cmpObj)]_vars

C4_Witness ==
    /\ cmpPhase = "ready"
    /\ cmpLastOp = "setattr"
    /\ cmpRaised = "AttributeError"
    /\ CmpResult.modified # {}
    /\ CmpResult.added # {}

(***************************************************************************)
(* QueryBuilder: properties                                                *)
(***************************************************************************)
\* the columns the query's predicates and order clauses refer to
QueryColumns(query) ==
    {query.where[i].column : i \in 1..Len(query.where)}
        \cup {query.order[i].column : i \in 1..Len(query.order)}

JoinedPaths(query) == {query.joins[i].path : i \in 1..Len(query.joins)}

\* C5: within one compilation every join path has exactly one alias and is
\* joined at most once: the joins of the query carry pairwise different paths
\* and aliases, each joined alias is the alias the resolver keeps for the
\* path, every predicate or order clause over a nested path uses that alias
\* and finds its join in the query, and an alias once given to a join path is
\* never replaced.
C5_OneAliasPerJoinPath ==
    /\ [](/\ \A i, j \in 1..Len(qbQuery.joins) :
                i # j => /\ qbQuery.joins[i].path # qbQuery.joins[j].path
                         /\ qbQuery.joins[i].alias # qbQuery.joins[j].alias
          /\ \A i \in 1..Len(qbQuery.joins) :
                /\ qbQuery.joins[i].path \in DOMAIN qbJoins
                /\ qbJoins[qbQuery.joins[i].path] = qbQuery.joins[i].alias
          /\ \A p, q \in DOMAIN qbJoins : p # q => qbJoins[p] # qbJoins[q]
          /\ \A c \in QueryColumns(qbQuery) :
                c.path # <<>> =>
                   /\ c.path \in JoinedPaths(qbQuery)
                   /\ c.alias = qbJoins[c.path])
    /\ [][\A p \in DOMAIN qbJoins :
             p \in DOMAIN qbJoins' /\ qbJoins'[p] = qbJoins[p]]_vars

\* two filters and a sort key share the prefix customer; two joins result
C5_Witness ==
    /\ qbPc = "done"
    /\ Len(qbQuery.where) = 2
    /\ qbQuery.where[1].column.path = <<"customer">>
    /\ qbQuery.where[2].column.path = <<"customer", "region">>
    /\ \E i \in 1..Len(qbQuery.order) : qbQuery.order[i].column.path = <<"customer">>
    /\ Len(qbQuery.joins) = 2

\* the row query with offset and limit taken off
Unpaged(query) == [query EXCEPT !.paged = FALSE, !.offset = 0, !.limit = 0]

\* C6: the row-count query exists only once the global filter, every column
\* filter and every sort key were applied; it carries no offset or limit and
\* is the row query without its pagination, so the count is the number of all
\* matching rows whatever pageIndex and pageSize are, while the page holds
\* min(pageSize, max(0, count - pageIndex * pageSize)) rows.
C6_CountBeforePagination ==
    /\ qbCount.set <=> qbPc \in {"paginate", "done"}
    /\ ~qbCount.set => ~qbQuery.paged
    /\ qbCount.set =>
          /\ ~qbCount.q.paged
          /\ qbCount.q = Unpaged(qbQuery)
          /\ ExecuteRowCount(qbCount.q) =
                Cardinality(MatchingRows([EmptyQuery EXCEPT !.where = qbQuery.where]))
    /\ qbPc = "done" =>
          /\ qbQuery.paged
          /\ ExecuteRowCount(qbQuery) =
                Min(qbReq.pagination.pageSize,
                    Max(0, ExecuteRowCount(qbCount.q)
                           - qbReq.pagination.pageIndex * qbReq.pagination.pageSize))

\* Scenario A: status equals OPEN, page 0 of size 10, 15 of 20 rows match
C6_Witness ==
    /\ qbPc = "done"
    /\ qbReq = [DefaultRequest EXCEPT
                  !.columnFilters = <<[id |-> <<"status">>, value |-> StrValue("OPEN")]>>,
                  !.columnFilterFns = (<<"status">> :> "equals")]
    /\ ExecuteRowCount(qbQuery) = 10
    /\ ExecuteRowCount(qbCount.q) = 15

\* C7: a failing column-filter or sort path never aborts the compilation:
\* apply_table_request always runs on to the count query and the pagination.
C7_FailureNeverAborts ==
    /\ qbPc # "aborted"
    /\ Len(qbInvalid) > 0 /\ qbPc = "done" => qbCount.set /\ qbQuery.paged

(***************************************************************************)
(* RelationshipUpdater: properties                                         *)
(***************************************************************************)
\* the fields that identify a child of the relation
RecKeyFields ==
    IF recCfg.key_fields = {} THEN Fields \ recCfg.exclude_fields
    ELSE recCfg.key_fields

\* the key of the child is the key of some record of the payload
KeyInPayload(child, payload) ==
    \E n \in 1..Len(payload) :
        KeyOn(payload[n], RecKeyFields) = KeyOn(child, RecKeyFields)

\* C8: with a soft-delete column configured, a child that some reconciliation
\* classified as removed is never passed to session.delete and, from that
\* call on, is in the relation's collection with the column set to true.
C8_SoftDeleteKeepsRemoved ==
    recCfg.soft_delete_column # "" =>
        \A i \in recEverRemoved :
            /\ i \notin recSessionDeleted
            /\ i \in Range(recChildren)
            /\ recObjs[i].deleted

\* C9: with a soft-delete column configured, a child whose column is true
\* when the call starts keeps every field and its audit metadata, is never
\* the instance matched to a record of the comparison, is not passed to
\* session.delete and is in the final collection.
C9_AlreadyDeletedUntouched ==
    recLast.soft /\ recLast.status # "none" =>
        \A i \in recLast.already :
            /\ recObjs[i] = recLast.objs[i]
            /\ i \notin recLast.matched
            /\ i \notin recSessionDeleted
            /\ i \in Range(recChildren)

\* an already soft-deleted child with key 1 meets a payload record with key
\* 1: the record is created as a new child, the deleted one is kept
C9_Witness ==
    /\ recLast.soft
    /\ recLast.status = "ok"
    /\ \E i \in recLast.already :
          /\ KeyInPayload(recLast.objs[i], recLast.payload)
          /\ i \in Range(recChildren)
          /\ recLast.created # {}

\* C10: without a soft-delete column, after a reconciliation every child of
\* the collection whose key is absent from the payload was passed to
\* session.delete and is not in the final collection, and every child whose
\* key is present is in the final collection.
C10_HardDeleteAbsentKeys ==
    recLast.status = "ok" /\ ~recLast.soft =>
        \A i \in Range(recLast.before) :
            IF KeyInPayload(recLast.objs[i], recLast.payload)
            THEN i \in Range(recChildren)
            ELSE i \in recSessionDeleted /\ i \notin Range(recChildren)

\* the payload that repeats the active children of the collection as they are
ActivePayload(children, objs) ==
    LET active == ComparisonItems(children, objs, recCfg.soft_delete_column)
    IN [n \in 1..Len(active) |->
           [id |-> objs[active[n]].id, title |-> objs[active[n]].title]]

\* the call changed no instance, created none, deleted none
NothingFurther ==
    /\ recObjs' = recObjs
    /\ recSessionDeleted' = recSessionDeleted
    /\ recLast'.created = {}

\* C11: a reconciliation whose payload equals the current active children
\* classifies nothing as added, removed or modified and changes nothing, and
\* a reconciliation that repeats the payload of the successful call right
\* before it creates, mutates and deletes nothing further.
C11_Idempotent ==
    [][recCalls' = recCalls + 1 =>
         /\ recLast'.payload = ActivePayload(recChildren, recObjs)
               /\ recLast'.status = "ok" =>
               LET result == ReconcileComparator(recChildren, recObjs,
                                 recLast'.payload, recCfg).obj["_result"]
               IN /\ result.added = {}
                  /\ result.removed = {}
                  /\ result.modified = {}
                  /\ NothingFurther
         /\ recLast.status = "ok" /\ recLast'.payload = recLast.payload =>
               NothingFurther]_vars

(***************************************************************************)
(* NestedRelationshipHandler: properties                                   *)
(***************************************************************************)
\* the last call was create_with_nested or update_with_nested on an Author
\* whose payload carries data under the relation key
PayloadCarries(key) ==
    /\ synLast.op \in {"create", "update"}
    /\ synLast.model = "Author"
    /\ key \in DOMAIN synLast.payload

\* the last call was a soft delete or a restore of the Author, who has a
\* Profile behind the one-to-one relation
FlagsWithProfile ==
    /\ synLast.op \in {"delete", "restore"}
    /\ synLast.soft
    /\ synRelated.profile.present

\* C12: every entry point of the handler (create_with_nested,
\* update_with_nested, delete_with_nested, restore_with_nested) raises
\* NotImplementedError when it meets a one-to-one relation of the entity:
\* a payload that carries the relation on create and update, an instance
\* that has the related entity on soft delete and restore
C12_OneToOneRaises ==
    PayloadCarries("profile") \/ FlagsWithProfile
        => synLast.status = "NotImplementedError"

\* C13: creating or updating an entity whose payload carries data for a
\* many-to-many relation raises an error, and no entity of the relation is
\* built: the relation is neither ignored silently nor synchronized
C13_ManyToManyRaises ==
    PayloadCarries("tags") =>
        /\ synLast.status \notin {"ok", "none"}
        /\ \A c \in synLast.created : c.model # "Tag"

\* the Publisher the Author was loaded with
LoadedPublisher ==
    [name |-> "pub", deleted |-> FALSE, updated_at |-> 0, updated_by |-> ""]

\* C14: no create, update, delete or restore call creates, mutates,
\* soft-deletes, restores or deletes an entity reached through a many-to-one
\* relation (Author.publisher, Article.author), whatever the payload has
C14_ManyToOneUntouched ==
    /\ synRelated.publisher = LoadedPublisher
    /\ \A c \in synSession.added :
          /\ c.model # "Publisher"
          /\ c.path # <<>> => c.model # "Author"
    /\ \A c \in synLast.created :
          /\ c.model # "Publisher"
          /\ c.path # <<>> => c.model # "Author"

\* a create and an update were given data under the many-to-one key, and the
\* Author was soft-deleted with the Publisher in place
C14_Witness ==
    /\ PayloadCarries("publisher")
    /\ synLast.status = "ok"
    /\ synInstance.deleted
    /\ \E c \in synSession.added : c.model = "Article"

\* C20: recursive processing of a nested payload stops on entity graphs with
\* cycles and self-reference: no invocation of process_nested_data runs
\* deeper than max_depth, stopping at the limit raises nothing, and no
\* instance is built from a payload level deeper than the limit
C20_DepthBounded ==
    /\ synLast.deepest <= synLast.max_depth
    /\ synLast.truncated /\ synLast.model = "Article" => synLast.status = "ok"
    /\ \A c \in synLast.created : Len(c.path) <= synLast.max_depth

(***************************************************************************)
(* Filter compilers: properties                                            *)
(***************************************************************************)
\* a related row satisfies every sub-condition of the filter
RowSatisfiesAll(row, parent, values) ==
    \A i \in 1..Len(values) : CondHolds(values[i], row, parent)

\* the compiled relation predicate holds for the parent of the input
HoldsForParent == Eval(fltOut, [sku |-> "", qty |-> 0], fltIn.parent)

RelationCompiled(operator) ==
    fltIn.filter = "relation" /\ fltIn.operator = operator /\ fltOut # FUnset

\* C15: hasAll holds for a parent if and only if the parent has at least one
\* related row and every related row satisfies every sub-condition, for any
\* number of sub-conditions
C15_HasAllEveryRow ==
    RelationCompiled("hasAll") =>
        (HoldsForParent <=>
            /\ fltIn.parent.items # {}
            /\ \A r \in fltIn.parent.items :
                   RowSatisfiesAll(r, fltIn.parent, fltIn.value))

BoundAbsent(b) == b.kind = "none" \/ (b.kind = "str" /\ b.v \in {"", " "})
BoundNumber(b) ==
    CASE b.kind = "num" -> b.n
      [] b.v = "2024-01-01" -> 1
      [] b.v = "2024-01-03" -> 3
      [] OTHER -> 0

\* the rows a two-bound between filter is to select
BetweenSelects(operator, lower, upper, x) ==
    CASE BoundAbsent(lower) /\ BoundAbsent(upper) -> TRUE
      [] BoundAbsent(upper) -> x >= BoundNumber(lower)
      [] BoundAbsent(lower) -> x <= BoundNumber(upper)
      [] operator = "between" -> BoundNumber(lower) < x /\ x < BoundNumber(upper)
      [] OTHER -> BoundNumber(lower) <= x /\ x <= BoundNumber(upper)

BetweenCompiled(filter) ==
    /\ fltIn.filter = filter
    /\ fltIn.operator \in {"between", "betweenInclusive"}
    /\ Len(fltIn.value) = 2
    /\ fltOut # FUnset

\* C17: for number and date columns, between / betweenInclusive with two
\* bounds selects every row when both bounds are null or empty, the rows
\* with column >= lower when only the lower bound is present, the rows with
\* column <= upper when only the upper bound is present, and with both
\* bounds the rows strictly between them (between) or between them with
\* the bounds included (betweenInclusive)
C17_BetweenBounds ==
    BetweenCompiled("number") \/ BetweenCompiled("date") =>
        \A x \in ColumnNumbers :
            BoundHolds(fltOut, x) <=>
                BetweenSelects(fltIn.operator, fltIn.value[1], fltIn.value[2], x)

(***************************************************************************)
(* QueryBuilder: requests without filters, and blank filter values         *)
(***************************************************************************)
\* apply_table_request ran to its end on a request with no column filter
\* and an empty global filter
CompiledWithoutFilters ==
    qbPc = "done" /\ qbReq.columnFilters = <<>> /\ qbReq.globalFilter = ""

\* the order clause is the requested sort keys that resolve, in request order
RECURSIVE OrderOfSorting(_, _)
OrderOfSorting(sorting, i) ==
    IF i > Len(sorting) THEN <<>>
    ELSE LET path_info == AnalyzePath(sorting[i].id)
         IN IF path_info.ok /\ path_info.column_type # "relation"
            THEN <<[attr |-> sorting[i].id[Len(sorting[i].id)],
                    desc |-> sorting[i].desc]>> \o OrderOfSorting(sorting, i + 1)
            ELSE OrderOfSorting(sorting, i + 1)

SortedAndPagedAsRequested ==
    /\ [i \in DOMAIN qbQuery.order |->
           [attr |-> qbQuery.order[i].column.attr, desc |-> qbQuery.order[i].desc]]
         = OrderOfSorting(qbReq.sorting, 1)
    /\ qbQuery.paged
    /\ qbQuery.offset = qbReq.pagination.pageIndex * qbReq.pagination.pageSize
    /\ qbQuery.limit = qbReq.pagination.pageSize

\* C18 (as stated): with an empty global filter and no column filters the
\* compiled row query has no join and no where predicate, only the requested
\* sort keys and the offset/limit of the pagination
C18_NoJoinNoWhere ==
    CompiledWithoutFilters =>
        /\ qbQuery.joins = <<>>
        /\ qbQuery.where = <<>>
        /\ SortedAndPagedAsRequested

\* C18 (amended): with an empty global filter and no column filters the
\* compiled row query has no where predicate and no join but those the
\* requested sort keys traverse (none when every sort key is an attribute of
\* the root entity), the requested sort keys in request order and the
\* offset/limit of the pagination
C18_SortAndPageOnly ==
    CompiledWithoutFilters =>
        /\ qbQuery.where = <<>>
        /\ \A i \in DOMAIN qbQuery.joins :
               \E k \in DOMAIN qbReq.sorting :
                   /\ Len(qbQuery.joins[i].path) < Len(qbReq.sorting[k].id)
                   /\ qbQuery.joins[i].path =
                        SubSeq(qbReq.sorting[k].id, 1, Len(qbQuery.joins[i].path))
        /\ SortedAndPagedAsRequested

C18_Witness ==
    /\ CompiledWithoutFilters
    /\ Len(qbQuery.order) = 2
    /\ qbQuery.joins # <<>>
    /\ qbQuery.offset > 0

\* a filter value that is None, an empty or blank string, or a list with no
\* entry that is not empty
BlankValue(value) ==
    value.kind = "none" \/ (value.kind \in {"str", "list"} /\ value.v \in {"", " "})

\* C19: a column filter whose value is null, an empty or whitespace-only
\* string, or an array with no non-empty entry is never applied to a
\* compiled query, however the Table Request reached the compiler
C19_BlankFiltersDropped ==
    \A i \in DOMAIN qbQuery.where :
        qbQuery.where[i].kind # "global" => ~BlankValue(qbQuery.where[i].value)

(***************************************************************************)
(* RelationshipUpdater: buckets, conversion failures, the final collection *)
(***************************************************************************)
\* the step is one call of update_one_to_many_relationship, which returned
RecCallReturned == recCalls' = recCalls + 1 /\ recLast'.status = "ok"

\* the comparison the call made of the children it found with its payload
RecResult ==
    ReconcileComparator(recChildren, recObjs, recLast'.payload, recCfg).obj["_result"]

\* the children the call compared: the active ones that convert
RecCompared ==
    {i \in Range(ComparisonItems(recChildren, recObjs, recCfg.soft_delete_column)) :
        Convertible(recObjs[i])}

\* the child as a `modified` entry is to leave it: the changed fields that
\* are not excluded have their new values, the update metadata is stamped,
\* every other field is as before
MutatedAsModified(obj, m, now) ==
    [f \in DOMAIN obj |->
        CASE f \in DOMAIN m.changed_fields /\ f \notin recCfg.exclude_fields ->
                m.changed_fields[f].new
          [] f = "updated_at" -> now
          [] f = "updated_by" -> "user"
          [] OTHER -> obj[f]]

\* C23: in a reconciliation an unchanged child is not mutated at all, and a
\* modified child has exactly its changed, non-excluded fields set to their
\* new values and its update metadata stamped, every other field keeping its
\* old value
C23_UnchangedAndModified ==
    [][RecCallReturned =>
         \A i \in RecCompared :
            /\ ToBase(recObjs[i]) \in RecResult.unchanged =>
                  recObjs'[i] = recObjs[i]
            /\ \A m \in RecResult.modified :
                  m.old_item = ToBase(recObjs[i]) =>
                     recObjs'[i] = MutatedAsModified(recObjs[i], m, recCalls')]_vars

\* C24: a record of the new payload that does not convert to the base schema
\* makes the call raise before any child is created, mutated or deleted; an
\* existing child that does not convert never makes the call raise
C24_ConversionFailures ==
    [][recCalls' = recCalls + 1 =>
         IF \E n \in 1..Len(recLast'.payload) : ~Convertible(recLast'.payload[n])
         THEN /\ recLast'.status = "ValidationError"
              /\ UNCHANGED <<recObjs, recChildren, recSessionDeleted>>
         ELSE \/ recLast'.status = "ok"
              \/ recLast'.status =
                    ReconcileComparator(
                        SelectSeq(recChildren, LAMBDA i : Convertible(recObjs[i])),
                        recObjs, recLast'.payload, recCfg).raised]_vars

\* a second call raised on its payload, on a parent that has a child that
\* does not convert and that an earlier call went through with
C24_Witness ==
    /\ recCalls = 2
    /\ recLast.status = "ValidationError"
    /\ \E i \in Range(recChildren) : ~Convertible(recObjs[i])
    /\ \E i \in DOMAIN recObjs : recObjs[i].updated_at = 1

\* C27: after a call every child that was in the relation before it is in
\* the final collection or was passed to session.delete
C27_NoChildLost ==
    recLast.status = "ok" =>
        \A i \in Range(recLast.before) :
            i \in Range(recChildren) \/ i \in recSessionDeleted

\* the children the call found soft-deleted already, in their order
RecAlready == AlreadyDeletedItems(recChildren, recObjs, recCfg.soft_delete_column)

\* the compared children whose record the comparison put into `unchanged`,
\* into `modified`
RecUnchanged == {i \in RecCompared : ToBase(recObjs[i]) \in RecResult.unchanged}
RecModified ==
    {i \in RecCompared :
        \E m \in RecResult.modified : m.old_item = ToBase(recObjs[i])}

\* positions a+1 .. a+n of the collection after the call
RecSegment(a, n) == {recChildren'[k] : k \in (a + 1)..(a + n)}

\* the children are new instances, one per added record
OnePerAdded(created) ==
    /\ created \cap DOMAIN recObjs = {}
    /\ Cardinality(created) = Cardinality(RecResult.added)
    /\ {ToBase(recObjs'[i]) : i \in created} = RecResult.added

\* C26: after the call the relation's collection is the concatenation, in
\* this order, of the children soft-deleted already, the kept unchanged
\* children, the mutated children and the newly created children, with
\* exactly one newly created child per added record
C26_FinalCollection ==
    [][RecCallReturned =>
         LET a == Len(RecAlready)
             u == Cardinality(RecUnchanged)
             m == Cardinality(RecModified)
             c == Cardinality(RecResult.added)
         IN /\ Len(recChildren') = a + u + m + c
            /\ SubSeq(recChildren', 1, a) = RecAlready
            /\ RecSegment(a, u) = RecUnchanged
            /\ RecSegment(a + u, m) = RecModified
            /\ OnePerAdded(RecSegment(a + u + m, c))]_vars

(***************************************************************************)
(* QueryBuilder: dispatch, the join cache, skipped filters                 *)
(***************************************************************************)
\* the filters in the order _apply_filter_by_type tries them
DispatchOrder == <<"relation", "number", "date", "boolean", "list", "text">>

\* supports_operator of the filter of the given kind
SupportsOperator(kind, operator) ==
    operator \in CASE kind = "relation" -> RELATION_OPERATORS
                   [] kind = "number" -> NUMBER_OPERATORS
                   [] kind = "date" -> DATE_OPERATORS
                   [] kind = "boolean" -> BOOLEAN_OPERATORS
                   [] kind = "list" -> LIST_OPERATORS
                   [] OTHER -> TEXT_OPERATORS

\* the filters of a resolved type are tried for columns of that type only
TriedFor(kind, column_type) == kind \in {"list", "text"} \/ kind = column_type

\* the first filter that supports the operator, text fuzzy when there is none
FirstSupporting(operator) ==
    IF \E i \in DOMAIN DispatchOrder : SupportsOperator(DispatchOrder[i], operator)
    THEN LET i == CHOOSE i \in DOMAIN DispatchOrder :
                     /\ SupportsOperator(DispatchOrder[i], operator)
                     /\ \A j \in 1..(i - 1) : ~SupportsOperator(DispatchOrder[j], operator)
         IN [kind |-> DispatchOrder[i], op |-> operator]
    ELSE [kind |-> "text", op |-> "fuzzy"]

\* the first filter tried for the column type that supports the operator
FirstSupportingOfType(column_type, operator) ==
    LET fits(i) == /\ TriedFor(DispatchOrder[i], column_type)
                   /\ SupportsOperator(DispatchOrder[i], operator)
    IN IF \E i \in DOMAIN DispatchOrder : fits(i)
       THEN LET i == CHOOSE i \in DOMAIN DispatchOrder :
                        fits(i) /\ \A j \in 1..(i - 1) : ~fits(j)
            IN [kind |-> DispatchOrder[i], op |-> operator]
       ELSE [kind |-> "text", op |-> "fuzzy"]

\* the step handed the filter to d: its predicate was added to the query, or
\* the filter raised and the path was collected
DispatchedTo(d) ==
    \/ /\ Len(qbQuery'.where) = Len(qbQuery.where) + 1
       /\ qbQuery'.where[Len(qbQuery'.where)].kind = d.kind
       /\ qbQuery'.where[Len(qbQuery'.where)].op = d.op
    \/ /\ qbQuery'.where = qbQuery.where
       /\ Len(qbInvalid') = Len(qbInvalid) + 1
       /\ d.kind \in {"list", "relation"}

\* the column filter the next round of apply_column_filter applies
QbFilterAtHand == qbReq.columnFilters[qbIdx]

\* C22 (as stated): each column filter is dispatched to the first filter, in
\* the order relation, number, date, boolean, list, text, whose
\* supports(operator) is true, and to the text filter with operator fuzzy
\* when no filter supports the operator
C22_FirstSupporting ==
    [][(qbPc = "filters" /\ AnalyzePath(QbFilterAtHand.id).ok) =>
          DispatchedTo(FirstSupporting(FilterFnOf(qbReq, QbFilterAtHand.id)))]_vars

\* C22 (amended): each column filter with an operator other than custom is
\* dispatched to the first filter, in the order relation, number, date,
\* boolean, list, text, that supports the operator, where the relation,
\* number, date and boolean filters are tried only for a column of their own
\* type, and to the text filter with operator fuzzy when there is none; a
\* filter with the operator custom adds no predicate
C22_FirstSupportingOfType ==
    [][(qbPc = "filters" /\ AnalyzePath(QbFilterAtHand.id).ok) =>
          IF FilterFnOf(qbReq, QbFilterAtHand.id) = "custom"
          THEN qbQuery' = qbQuery /\ qbInvalid' = qbInvalid
          ELSE DispatchedTo(FirstSupportingOfType(
                   AnalyzePath(QbFilterAtHand.id).column_type,
                   FilterFnOf(qbReq, QbFilterAtHand.id)))]_vars

\* a number column filtered with a list operator and a text column filtered
\* with an operator the number filter supports too
C22_Witness ==
    /\ qbPc = "done"
    /\ Len(qbQuery.where) = 2
    /\ qbQuery.where[1].kind = "list" /\ qbQuery.where[1].column.attr = "amount"
    /\ qbQuery.where[2].kind = "text" /\ qbQuery.where[2].op = "equals"
    /\ qbQuery.where[2].column.attr = "status"

\* every join of the query as (path, alias)
AttachedJoins(query) ==
    {<<query.joins[i].path, query.joins[i].alias>> : i \in 1..Len(query.joins)}

\* C28: within one compilation the resolver's cached join paths and the
\* builder's applied joins never diverge: the cached paths are the applied
\* ones, each cached alias is attached to the query as the join of its path,
\* and every alias a filter or sort column refers to is attached, also after
\* an earlier path with the same relation prefix failed to resolve
C28_CacheMatchesJoins ==
    /\ DOMAIN qbJoins = qbApplied
    /\ {<<p, qbJoins[p]>> : p \in DOMAIN qbJoins} = AttachedJoins(qbQuery)
    /\ \A c \in QueryColumns(qbQuery) :
          c.alias # -1 => <<c.path, c.alias>> \in AttachedJoins(qbQuery)
    /\ qbCount.set =>
          \A c \in QueryColumns(qbCount.q) :
              c.alias # -1 => <<c.path, c.alias>> \in AttachedJoins(qbCount.q)

\* customer.bogus failed first, customer.name was filtered after it
C28_Witness ==
    /\ qbPc = "done"
    /\ Len(qbReq.columnFilters) = 2
    /\ qbReq.columnFilters[1].id = <<"customer", "bogus">>
    /\ qbReq.columnFilters[2].id = <<"customer", "name">>
    /\ <<"customer", "bogus">> \in Range(qbInvalid)
    /\ Len(qbQuery.where) = 1
    /\ qbQuery.where[1].column.path = <<"customer">>
    /\ <<qbQuery.where[1].column.path, qbQuery.where[1].column.alias>>
          \in AttachedJoins(qbQuery)

\* C29: a column filter that is collected in invalid_paths leaves the running
\* query as it was before the filter was tried: no join and no predicate of
\* the skipped filter stays in the query
C29_SkippedFilterLeavesQuery ==
    [][(qbPc = "filters" /\ Len(qbInvalid') > Len(qbInvalid)) =>
          qbQuery' = qbQuery]_vars

(***************************************************************************)
(* RelationFilter: the existential tests of hasAny and hasAll              *)
(***************************************************************************)
\* the columns compared inside an expression, in the order they appear
RECURSIVE ComparedColumns(_), ComparedColumnsOfArgs(_, _)
ComparedColumns(e) ==
    IF e.op = "cmp" THEN <<e.cond.column>> ELSE ComparedColumnsOfArgs(e.args, 1)
ComparedColumnsOfArgs(args, i) ==
    IF i > Len(args) THEN <<>>
    ELSE ComparedColumns(args[i]) \o ComparedColumnsOfArgs(args, i + 1)

\* the existential tests of a predicate that carry a condition, each as the
\* columns it compares; any() without a condition only asks for a related row
RECURSIVE ExistentialTests(_), ExistentialTestsOfArgs(_, _)
ExistentialTests(e) ==
    IF e.op = "any"
    THEN IF e.args = <<>> THEN <<>> ELSE <<ComparedColumns(e)>>
    ELSE ExistentialTestsOfArgs(e.args, 1)
ExistentialTestsOfArgs(args, i) ==
    IF i > Len(args) THEN <<>>
    ELSE ExistentialTests(args[i]) \o ExistentialTestsOfArgs(args, i + 1)

\* the path of a sub-condition leads back to the model of the outer query
LeadsBackToOuter(value) ==
    IsNestedColumn(value.column) /\ FinalModel(value.column) = "Order"

\* C25: when the path of a sub-condition leads back to the entity type of the
\* outer query, hasAny and hasAll build one existential test per
\* sub-condition and combine the tests with AND; for every other path one
\* single existential test covers all the sub-conditions
C25_ExistentialPerSubCondition ==
    (RelationCompiled("hasAny") \/ RelationCompiled("hasAll")) =>
        LET values == fltIn.value
            columns == [i \in 1..Len(values) |-> values[i].column]
        IN IF \E i \in 1..Len(values) : LeadsBackToOuter(values[i])
           THEN /\ ExistentialTests(fltOut) =
                      [i \in 1..Len(values) |-> <<columns[i]>>]
                /\ Len(values) > 1 => fltOut.op = "and"
           ELSE ExistentialTests(fltOut) = <<columns>>

\* hasAll with three sub-conditions, one of them on order.status
C25_Witness ==
    /\ RelationCompiled("hasAll")
    /\ Len(fltIn.value) = 3
    /\ \E i \in 1..3 : LeadsBackToOuter(fltIn.value[i])
    /\ \E i \in 1..3 : ~LeadsBackToOuter(fltIn.value[i])
    /\ Len(ExistentialTests(fltOut)) = 3

(***************************************************************************)
(* NestedRelationshipHandler: soft delete followed by restore              *)
(***************************************************************************)
\* the step is a soft restore that returned, right after a soft delete of the
\* same parent that returned
RestoredAfterDelete ==
    /\ synLast.op = "delete" /\ synLast.soft /\ synLast.status = "ok"
    /\ synCalls' = synCalls + 1
    /\ synLast'.op = "restore" /\ synLast'.soft /\ synLast'.status = "ok"

\* C30: soft delete followed by restore is a round trip on the children:
\* after delete_with_nested and then restore_with_nested on the same parent
\* the parent's soft-delete flag is false and every one-to-many child has the
\* soft-delete flag it had before the delete
C30_DeleteRestoreRoundTrip ==
    [][RestoredAfterDelete =>
          /\ ~synInstance'.deleted
          /\ \A i \in Range(synChildren) :
                synObjs'[i].deleted = synLast.flags_before[i]]_vars

(***************************************************************************)
(* Two reconciliations of different parents against one after the other    *)
(***************************************************************************)
\* an instance without the number it has among the instances
Content(obj) ==
    [id |-> obj.id, title |-> obj.title, deleted |-> obj.deleted,
     updated_at |-> obj.updated_at, updated_by |-> obj.updated_by]

Contents(children, objs) ==
    [k \in 1..Len(children) |-> Content(objs[children[k]])]

\* the whole call of parent p on the given instances and session, with the
\* payload the call was given and the iteration orders its loops took
SequentialCall(p, objs, session_deleted) ==
    LET children == parBefore.children[p]
        c == ReconcileComparator(children, objs, parWork[p].payload, parCfg)
    IN IF c.raised # "none"
       THEN [raised |-> c.raised, result |-> EmptyResult,
             st |-> [objs |-> objs, final |-> children,
                     session_deleted |-> session_deleted,
                     matched |-> {}, created |-> {}]]
       ELSE [raised |-> "none", result |-> c.obj["_result"],
             st |-> ReconcileApply(children, objs, parCfg, c.obj["_result"],
                                   parWork[p].taken, session_deleted, p)]

\* the call of parent `first`, and after it the call of the other parent
SequentialRun(first) ==
    LET second == 3 - first
        a == SequentialCall(first, parBefore.objs, {})
        b == SequentialCall(second, a.st.objs, a.st.session_deleted)
    IN [calls |-> (first :> a) @@ (second :> b),
        objs |-> b.st.objs, session_deleted |-> b.st.session_deleted]

\* parent p has the outcome it has in the run: the same classification, the
\* same final collection, creations, mutations and deletions
SameOutcome(p, run) ==
    LET call == run.calls[p]
        own == Range(parBefore.children[p])
    IN /\ parWork[p].status = IF call.raised = "none" THEN "ok" ELSE call.raised
       /\ \A bucket \in DOMAIN call.result :
             Range(parWork[p].taken[bucket]) = call.result[bucket]
       /\ Contents(parChildren[p], parObjs) = Contents(call.st.final, run.objs)
       /\ Cardinality(parWork[p].created) = Cardinality(call.st.created)
       /\ {Content(parObjs[i]) : i \in parWork[p].created}
             = {Content(run.objs[i]) : i \in call.st.created}
       /\ \A i \in own : parObjs[i] = run.objs[i]
       /\ parSessionDeleted \cap own = run.session_deleted \cap own

ParBothReturned == \A p \in Parents2 : parPc[p] \in {"done", "raised"}

\* C21: reconciliations of two different parents, interleaved at any step,
\* give each parent the same final child collection and the same child
\* creations, mutations and deletions as the two reconciliations run one
\* after the other, in either order
C21_InterleavedAsSequential ==
    ParBothReturned =>
        /\ \A first, p \in Parents2 : SameOutcome(p, SequentialRun(first))
        /\ Len(parObjs) = Len(parBefore.objs)
                             + Cardinality(parWork[1].created)
                             + Cardinality(parWork[2].created)
        /\ parWork[1].created \cap parWork[2].created = {}

\* both calls returned; the second parent mutated a child and created one
\* between two creations of the first
C21_Witness ==
    /\ \A p \in Parents2 : parPc[p] = "done"
    /\ \E i, k \in parWork[1].created, j \in parWork[2].created : i < j /\ j < k
    /\ Len(parWork[2].taken.modified) > 0

====
